---- MODULE Spec2Model ----
(***************************************************************************)
(* Model of the timetabling search engine of src/genetic_algorithm.py:     *)
(* the constraint evaluator evaluate_schedule, the variation operators     *)
(* mutate_individual and crossover_individual, and the generational loop   *)
(* execute_genAlgorithm (DEAP's eaSimple with a size-1 hall of fame).      *)
(*                                                                         *)
(* Conventions.                                                            *)
(*  - A gene is the tuple <<room, timeslot>>; a genome is a sequence of    *)
(*    genes.  Python positions are 0-based: position idx of the code is    *)
(*    index idx+1 here, and teacher_of_lesson is keyed by the 0-based idx. *)
(*  - A Python string that the code parses is a sequence of characters.    *)
(*    A character is "," or " " or an atomic name such as "T1": the        *)
(*    timeslot id T1 is the one-character string <<"T1">>.                 *)
(*  - A lesson id "class::subject::n" is kept as the sequence of its       *)
(*    "::"-separated fields, i.e. as the value of lesson_id.split("::").   *)
(*  - The score is a multiple of 0.5; it is kept as an integer number of   *)
(*    1/ScoreUnit points, so 10 points are 10 * ScoreUnit.                 *)
(*  - A Python dict keeps insertion order: it is a sequence of [k, v].     *)
(***************************************************************************)
EXTENDS Integers, Sequences, FiniteSets, TLC

\* ------------------------------------------------------------------------
\* Python helpers
\* ------------------------------------------------------------------------

\* None, as returned by dict.get without a default
None == "<None>"

\* truth value of a teacher id in `if teacher_id:` (None and "" are falsy)
Truthy(x) == x # None /\ x # ""

\* key in d
DictHas(d, k) == \E i \in 1..Len(d) : d[i].k = k

\* d.get(k, default)
DictGet(d, k, default) ==
    IF DictHas(d, k) THEN d[CHOOSE i \in 1..Len(d) : d[i].k = k].v ELSE default

\* d[k] = v on an insertion-ordered dict
DictPut(d, k, v) ==
    IF DictHas(d, k)
    THEN [i \in 1..Len(d) |-> IF d[i].k = k THEN [k |-> k, v |-> v] ELSE d[i]]
    ELSE Append(d, [k |-> k, v |-> v])

\* defaultdict(list): d[k].append(x)
DictAppend(d, k, x) == DictPut(d, k, Append(DictGet(d, k, <<>>), x))

\* defaultdict(int): d[k] += 1
DictIncr(d, k) == DictPut(d, k, DictGet(d, k, 0) + 1)

\* the one-character string of an id
Str(x) == <<x>>

\* s.split(",")
RECURSIVE Split(_)
Split(s) ==
    IF \A i \in 1..Len(s) : s[i] # ","
    THEN <<s>>
    ELSE LET j == CHOOSE j \in 1..Len(s) :
                     s[j] = "," /\ \A k \in 1..(j - 1) : s[k] # ","
         IN  <<SubSeq(s, 1, j - 1)>> \o Split(SubSeq(s, j + 1, Len(s)))

\* p.strip()
RECURSIVE Strip(_)
Strip(s) ==
    IF s = <<>> THEN s
    ELSE IF Head(s) = " " THEN Strip(Tail(s))
    ELSE IF s[Len(s)] = " " THEN Strip(SubSeq(s, 1, Len(s) - 1))
    ELSE s

\* ParseList that keeps the items unstripped: [p for p in ... if p.strip()]
ParseList_noStrip(s) ==
    LET parts == Split(s)
    IN  SelectSeq(parts, LAMBDA p : Strip(p) # <<>>)

\* [p.strip() for p in s.split(",") if p.strip()]
ParseList(s) ==
    LET parts == Split(s)
        stripped == [i \in 1..Len(parts) |-> Strip(parts[i])]
    IN  SelectSeq(stripped, LAMBDA p : p # <<>>)

\* x in lst
InList(x, lst) == \E i \in 1..Len(lst) : lst[i] = x

\* ------------------------------------------------------------------------
\* Constraint evaluator: evaluate_schedule
\* ------------------------------------------------------------------------

\* resolution of the score: one point is ScoreUnit units (soft penalty 0.5)
ScoreUnit == 2

\* penalty of a structural hard violation (unknown room, conflicts), in points
HardPenalty == 10

\* penalty per missing seat / per lesson over the workload, in points
OverflowFactor == 2

\* tinfo.get(field, default) on a teacher record
InfoGet(tinfo, field, default) ==
    IF field \in DOMAIN tinfo THEN tinfo[field] ELSE default

\* teacher_info.get(tid, {})
TeacherInfoOf(T, tid) ==
    IF tid \in DOMAIN T.teacher_info THEN T.teacher_info[tid] ELSE <<>>

\* teacher_info.get(tid, {}).get('teacher_name', tid)
TeacherName(T, tid) == InfoGet(TeacherInfoOf(T, tid), "teacher_name", tid)

\* violations += p; reasons.append(r)   (added is the history of the
\* increments, kept next to the reason each one was recorded with)
Penalize(st, p, r) ==
    [st EXCEPT !.violations = @ + p, !.reasons = Append(@, r),
               !.added = Append(@, p)]

\* the state of the evaluator before the per-gene loop
EvalStart ==
    [violations |-> 0, reasons |-> <<>>, added |-> <<>>,
     assigned_room_timeslot |-> <<>>,
     teacher_load |-> <<>>, teacher_schedule |-> <<>>]

\* SoftPenalty of a whole point
SoftPenalty_point == ScoreUnit

\* penalty of a missed preference: 0.5 points
SoftPenalty == ScoreUnit \div 2

\* body of `if teacher_id:` for one gene
TeacherStep(st, T, teacher_id, timeslot, class_id, subject) ==
    LET s1 == [st EXCEPT
                 !.teacher_load = DictIncr(@, teacher_id),
                 !.teacher_schedule =
                     DictAppend(@, teacher_id, <<timeslot, class_id>>)]
        tinfo == TeacherInfoOf(T, teacher_id)
        preferred_periods ==
            ParseList(InfoGet(tinfo, "teacher_preferred_periods", <<>>))
        s2 == IF preferred_periods # <<>>
                 /\ ~InList(Str(timeslot), preferred_periods)
              THEN Penalize(s1, SoftPenalty,
                            [kind |-> "soft_period",
                             teacher |-> TeacherName(T, teacher_id),
                             preferred |-> preferred_periods,
                             timeslot |-> timeslot])
              ELSE s1
        fav_subjects ==
            ParseList(InfoGet(tinfo, "teacher_favorites_subject", <<>>))
    IN  IF fav_subjects # <<>> /\ ~InList(Str(subject), fav_subjects)
        THEN Penalize(s2, SoftPenalty,
                      [kind |-> "soft_subject",
                       teacher |-> TeacherName(T, teacher_id),
                       preferred |-> fav_subjects,
                       subject |-> subject])
        ELSE s2

\* CapacityPenalty with the difference taken the other way round
CapacityPenalty_signed(cap, students) ==
    (cap - students) * OverflowFactor * ScoreUnit

\* CapacityPenalty without the factor 2
CapacityPenalty_noFactor(cap, students) == (students - cap) * ScoreUnit

\* penalty of a room with cap seats given to a class of students pupils
CapacityPenalty(cap, students) == (students - cap) * OverflowFactor * ScoreUnit

\* GeneStep without the `continue` of line 50: a gene with an unknown room
\* goes on to the occupancy map and to its teacher
GeneStep_noContinue(st, T, individual, i) ==
    LET room == individual[i][1]
        timeslot == individual[i][2]
        class_id == T.lesson_instances[i][1]
        subject == T.lesson_instances[i][2]
        students == T.class_students[class_id]
        known == room \in DOMAIN T.rooms_capacity
        s0 == IF known THEN st
              ELSE Penalize(st, HardPenalty * ScoreUnit,
                            [kind |-> "room_missing", room |-> room])
        s1 == IF known /\ T.rooms_capacity[room] < students
              THEN Penalize(s0, CapacityPenalty(T.rooms_capacity[room], students),
                            [kind |-> "capacity", room |-> room,
                             capacity |-> T.rooms_capacity[room],
                             class |-> class_id, students |-> students])
              ELSE s0
        s2 == [s1 EXCEPT !.assigned_room_timeslot =
                   DictAppend(@, <<room, timeslot>>, <<i - 1, class_id>>)]
        teacher_id == IF (i - 1) \in DOMAIN T.teacher_of_lesson
                      THEN T.teacher_of_lesson[i - 1] ELSE None
    IN  IF Truthy(teacher_id)
        THEN TeacherStep(s2, T, teacher_id, timeslot, class_id, subject)
        ELSE s2

\* body of the per-gene loop for index i (idx = i - 1)
GeneStep(st, T, individual, i) ==
    LET room == individual[i][1]
        timeslot == individual[i][2]
        lesson_id == T.lesson_instances[i]
        class_id == lesson_id[1]
        subject == lesson_id[2]
        students == T.class_students[class_id]
    IN  IF room \notin DOMAIN T.rooms_capacity
        THEN Penalize(st, HardPenalty * ScoreUnit,
                      [kind |-> "room_missing", room |-> room])
        ELSE
        LET cap == T.rooms_capacity[room]
            s1 == IF cap < students
                  THEN Penalize(st, CapacityPenalty(cap, students),
                                [kind |-> "capacity", room |-> room,
                                 capacity |-> cap, class |-> class_id,
                                 students |-> students])
                  ELSE st
            s2 == [s1 EXCEPT !.assigned_room_timeslot =
                       DictAppend(@, <<room, timeslot>>, <<i - 1, class_id>>)]
            teacher_id == IF (i - 1) \in DOMAIN T.teacher_of_lesson
                          THEN T.teacher_of_lesson[i - 1] ELSE None
        IN  IF Truthy(teacher_id)
            THEN TeacherStep(s2, T, teacher_id, timeslot, class_id, subject)
            ELSE s2

\* for idx, gene in enumerate(individual): ...
RECURSIVE GenePass(_, _, _, _)
GenePass(st, T, individual, i) ==
    IF i > Len(individual) THEN st
    ELSE GenePass(GeneStep(st, T, individual, i), T, individual, i + 1)

\* ConflictPenalty charging every lesson of the group
ConflictPenalty_perLesson(k) == HardPenalty * k * ScoreUnit

\* ConflictPenalty that charges the lessons beyond the second only
ConflictPenalty_overTwo(k) == HardPenalty * (k - 2) * ScoreUnit

\* penalty of k lessons at one (room, timeslot), or of one teacher at one timeslot
ConflictPenalty(k) == HardPenalty * (k - 1) * ScoreUnit

\* for (room, timeslot), lst in assigned_room_timeslot.items(): ...
RECURSIVE RoomConflictPass(_, _)
RoomConflictPass(st, n) ==
    IF n > Len(st.assigned_room_timeslot) THEN st
    ELSE LET e == st.assigned_room_timeslot[n]
             lst == e.v
             s1 == IF Len(lst) > 1
                   THEN Penalize(st, ConflictPenalty(Len(lst)),
                                 [kind |-> "room_conflict", room |-> e.k[1],
                                  involved |-> [j \in 1..Len(lst) |-> lst[j][2]],
                                  timeslot |-> e.k[2]])
                   ELSE st
         IN  RoomConflictPass(s1, n + 1)

\* TimeslotCount with the two fields of a schedule entry taken for one
\* another: the entries are grouped by class
RECURSIVE TimeslotCount_byClass(_, _, _)
TimeslotCount_byClass(schedule, j, acc) ==
    IF j > Len(schedule) THEN acc
    ELSE TimeslotCount_byClass(schedule, j + 1,
                               DictAppend(acc, schedule[j][2], schedule[j][1]))

\* timeslot_count of one teacher: schedule entries grouped by timeslot
RECURSIVE TimeslotCount(_, _, _)
TimeslotCount(schedule, j, acc) ==
    IF j > Len(schedule) THEN acc
    ELSE TimeslotCount(schedule, j + 1,
                       DictAppend(acc, schedule[j][1], schedule[j][2]))

\* for timeslot, classes in timeslot_count.items(): ...
RECURSIVE TeacherSlots(_, _, _, _, _)
TeacherSlots(st, T, tid, tc, m) ==
    IF m > Len(tc) THEN st
    ELSE LET classes == tc[m].v
             s1 == IF Len(classes) > 1
                   THEN Penalize(st, ConflictPenalty(Len(classes)),
                                 [kind |-> "teacher_conflict",
                                  teacher |-> TeacherName(T, tid),
                                  classes |-> classes,
                                  timeslot |-> tc[m].k])
                   ELSE st
         IN  TeacherSlots(s1, T, tid, tc, m + 1)

\* for tid, schedule in teacher_schedule.items(): ...
RECURSIVE TeacherConflictPass(_, _, _)
TeacherConflictPass(st, T, n) ==
    IF n > Len(st.teacher_schedule) THEN st
    ELSE LET e == st.teacher_schedule[n]
             tc == TimeslotCount(e.v, 1, <<>>)
         IN  TeacherConflictPass(TeacherSlots(st, T, e.k, tc, 1), T, n + 1)

\* WorkloadPenalty without the factor 2
WorkloadPenalty_noFactor(load, maxw) == (load - maxw) * ScoreUnit

\* penalty of a teacher with load lessons and a limit of maxw
WorkloadPenalty(load, maxw) == (load - maxw) * OverflowFactor * ScoreUnit

\* for tid, load in teacher_load.items(): ...  (a record without the field
\* teacher_max_workload is the case maxw is None)
RECURSIVE WorkloadPass(_, _, _)
WorkloadPass(st, T, n) ==
    IF n > Len(st.teacher_load) THEN st
    ELSE LET tid == st.teacher_load[n].k
             load == st.teacher_load[n].v
             tinfo == TeacherInfoOf(T, tid)
             maxw == InfoGet(tinfo, "teacher_max_workload", None)
             s1 == IF "teacher_max_workload" \in DOMAIN tinfo /\ load > maxw
                   THEN Penalize(st, WorkloadPenalty(load, maxw),
                                 [kind |-> "workload",
                                  teacher |-> TeacherName(T, tid),
                                  load |-> load, maxw |-> maxw])
                   ELSE st
         IN  WorkloadPass(s1, T, n + 1)

\* the evaluator's state after each of its four passes
AfterGenes(individual, T) == GenePass(EvalStart, T, individual, 1)
AfterRooms(individual, T) == RoomConflictPass(AfterGenes(individual, T), 1)
AfterTeachers(individual, T) == TeacherConflictPass(AfterRooms(individual, T), T, 1)
AfterWorkload(individual, T) == WorkloadPass(AfterTeachers(individual, T), T, 1)

\* the lookups before the room check raise: IndexError when the lesson list is
\* shorter than the genome or the id has no "::", KeyError for an unknown class
EvalRaises(individual, T) ==
    \E i \in 1..Len(individual) :
        \/ i > Len(T.lesson_instances)
        \/ Len(T.lesson_instances[i]) < 2
        \/ T.lesson_instances[i][1] \notin DOMAIN T.class_students

\* evaluate_schedule: the fitness tuple (violations,) and individual.reasons
evaluate_schedule(individual, T) ==
    IF EvalRaises(individual, T)
    THEN [raised |-> TRUE, violations |-> 0, reasons |-> <<>>]
    ELSE LET st == AfterWorkload(individual, T)
         IN  [raised |-> FALSE, violations |-> st.violations,
              reasons |-> st.reasons]

\* ------------------------------------------------------------------------
\* Variation operators
\* ------------------------------------------------------------------------

\* MutateGene with the re-drawn timeslot stored in the room field
MutateGene_wrongField(gene, d) ==
    IF d.kind = "ts" THEN <<d.val, gene[2]>>
    ELSE IF d.kind = "room" THEN <<d.val, gene[2]>>
    ELSE gene

\* one gene of mutate_individual under one outcome of its random draws:
\* d.kind = "keep" (random() >= indpb), "ts" (re-draw of the timeslot, d.val)
\* or "room" (re-draw of the room, d.val)
MutateGene(gene, d) ==
    IF d.kind = "ts" THEN <<gene[1], d.val>>
    ELSE IF d.kind = "room" THEN <<d.val, gene[2]>>
    ELSE gene

\* the outcomes of the random draws for one gene
GeneDraws(rooms, timeslots) ==
    {[kind |-> "keep", val |-> ""]}
    \cup {[kind |-> "ts", val |-> timeslots[j]] : j \in 1..Len(timeslots)}
    \cup {[kind |-> "room", val |-> rooms[j]] : j \in 1..Len(rooms)}

\* mutate_individual under the draws ds (one per gene): the genes of the
\* individual after the call; the call works in place and returns its argument
mutate_individual(individual, ds) ==
    [i \in 1..Len(individual) |-> MutateGene(individual[i], ds[i])]

\* lst[a:b] = other[a:b] for 0-based cuts a <= b on lists of equal length
SliceFrom(lst, other, a, b) ==
    [i \in 1..Len(lst) |-> IF a < i /\ i <= b THEN other[i] ELSE lst[i]]

\* crossover_individual with open-ended right-hand slices:
\* ind1[a:b], ind2[a:b] = ind2[a:], ind1[a:]
crossover_individual_openSlice(ind1, ind2, a0, b0) ==
    IF Len(ind1) < 2 THEN <<ind1, ind2>>
    ELSE LET a == IF a0 > b0 THEN b0 ELSE a0
             b == IF a0 > b0 THEN a0 ELSE b0
         IN  <<SubSeq(ind1, 1, a) \o SubSeq(ind2, a + 1, Len(ind2))
                   \o SubSeq(ind1, b + 1, Len(ind1)),
               SubSeq(ind2, 1, a) \o SubSeq(ind1, a + 1, Len(ind1))
                   \o SubSeq(ind2, b + 1, Len(ind2))>>

\* crossover_individual that hands short parents back in the other order
crossover_individual_swapShort(ind1, ind2, a0, b0) ==
    IF Len(ind1) < 2 THEN <<ind2, ind1>>
    ELSE LET a == IF a0 > b0 THEN b0 ELSE a0
             b == IF a0 > b0 THEN a0 ELSE b0
         IN  <<SliceFrom(ind1, ind2, a, b), SliceFrom(ind2, ind1, a, b)>>

\* crossover_individual with the slice one position wider on both sides:
\* ind1[a-1:b+1], ind2[a-1:b+1] = ind2[a-1:b+1], ind1[a-1:b+1]
crossover_individual_wideSlice(ind1, ind2, a0, b0) ==
    IF Len(ind1) < 2 THEN <<ind1, ind2>>
    ELSE LET a == IF a0 > b0 THEN b0 ELSE a0
             b == IF a0 > b0 THEN a0 ELSE b0
         IN  <<SliceFrom(ind1, ind2, a - 1, b + 1),
               SliceFrom(ind2, ind1, a - 1, b + 1)>>

\* crossover_individual with the cuts a0, b0 drawn by randint(1, len - 1):
\* the genes of <<ind1, ind2>> after the call (the cuts are not drawn and
\* nothing changes when len(ind1) < 2)
crossover_individual(ind1, ind2, a0, b0) ==
    IF Len(ind1) < 2 THEN <<ind1, ind2>>
    ELSE LET a == IF a0 > b0 THEN b0 ELSE a0
             b == IF a0 > b0 THEN a0 ELSE b0
         IN  <<SliceFrom(ind1, ind2, a, b), SliceFrom(ind2, ind1, a, b)>>

\* the values randint(1, len - 1) can return
Cuts(len) == 1..(len - 1)

\* ------------------------------------------------------------------------
\* Generational loop: execute_genAlgorithm
\* ------------------------------------------------------------------------

\* population size of the runs explored (npop)
NPop == 2

\* largest generation count of the runs explored (ngen)
MaxGen == 2

\* most genes the mutation re-draws in one generation of the runs explored
MaxRedraws == 1

\* tournsize of tools.selTournament
TournSize == 3

\* the rooms and timeslots lists of the runs explored
rooms == <<"R1", "R2">>
timeslots == <<"T1", "T2">>

\* the domain tables of the runs explored
Tab ==
    [lesson_instances |-> << <<"A", "Math", "1">>, <<"B", "Art", "1">>,
                             <<"A", "Art", "2">> >>,
     rooms_capacity |-> [R1 |-> 30, R2 |-> 20],
     class_students |-> [A |-> 25, B |-> 10],
     teacher_of_lesson |-> (0 :> "P1" @@ 1 :> "P2" @@ 2 :> "P1"),
     teacher_info |->
        [P1 |-> [teacher_name |-> "Ana",
                 teacher_preferred_periods |-> <<"T1", ",", " ", "T2">>,
                 teacher_max_workload |-> 2],
         P2 |-> [teacher_name |-> "Bia",
                 teacher_preferred_periods |-> <<"T2">>,
                 teacher_favorites_subject |-> <<"Art">>]]]

\* every genome create_individual can return
create_individual(rs, ts, length) ==
    [1..length -> {<<rs[i], ts[j]>> : i \in 1..Len(rs), j \in 1..Len(ts)}]

\* the initial genomes explored: a clean timetable and one with every lesson
\* in the small room at one time
InitGenomes ==
    { << <<"R1", "T1">>, <<"R2", "T2">>, <<"R1", "T2">> >>,
      << <<"R2", "T1">>, <<"R2", "T1">>, <<"R2", "T1">> >> }
    \cap create_individual(rooms, timeslots, Len(Tab.lesson_instances))

VARIABLES
    cfg,        \* the arguments rooms, timeslots, lesson_instances and npop
    pc,         \* position in execute_genAlgorithm / eaSimple
    pop,        \* population: sequence of individuals
    sel,        \* result of toolbox.select: positions in pop (references)
    offspring,  \* the clones varAnd works on
    touched,    \* history: the positions of the offspring that varAnd changed
    hof,        \* tools.HallOfFame(1): sequence of at most one individual
    gen,        \* generations completed
    ngen,       \* generation count of this run
    result,     \* return value of execute_genAlgorithm
    seen        \* history: the scores of all individuals evaluated so far

gaVars == <<cfg, pc, pop, sel, offspring, touched, hof, gen, ngen, result, seen>>

VARIABLES
    ePc,        \* evaluate_schedule called alone: position of the caller
    eInd,       \* the genome passed to evaluate_schedule
    eTab,       \* the domain tables passed to evaluate_schedule
    eOut,       \* what the last call left: raised, or the evaluator's state
    ePrev,      \* what the call before the last one left
    eLog        \* history: the genes passed to each call and what it left

evVars == <<ePc, eInd, eTab, eOut, ePrev, eLog>>

VARIABLES
    oPc,        \* a variation operator called alone: position of the caller
    oIn,        \* the genes of the two genomes before the call
    oArg,       \* the genes of the two genomes passed, after the call
    oRet        \* the genes of the genomes the call returned

opVars == <<oPc, oIn, oArg, oRet>>

VARIABLES
    rPc,                \* a caller of the search: position in its main()
    caller,             \* which main() runs: "main" or "teacher_assignment"
    tries,              \* tries % max_tries_before_suggestion
    solution_found,     \* loop flag of teacher_assignment.main
    rejected_solutions, \* its count of rejected individuals, up to MaxRejected
    tHof,               \* the hall of fame the last attempt returned
    report              \* what the caller printed at its end

rtVars == <<rPc, caller, tries, solution_found, rejected_solutions, tHof, report>>

\* the variables of a part of the program that is not running
GaIdle ==
    /\ cfg = <<>>
    /\ pc = "IDLE" /\ pop = <<>> /\ sel = <<>> /\ offspring = <<>> /\ hof = <<>>
    /\ touched = {}
    /\ gen = 0 /\ ngen = 0 /\ result = [status |-> "none"] /\ seen = {}
EvIdle ==
    /\ ePc = "IDLE" /\ eInd = <<>> /\ eTab = <<>>
    /\ eOut = [raised |-> FALSE] /\ ePrev = [raised |-> FALSE] /\ eLog = <<>>
OpIdle ==
    /\ oPc = "IDLE" /\ oIn = <<>> /\ oArg = <<>> /\ oRet = <<>>
RtIdle ==
    /\ rPc = "IDLE" /\ caller = "none" /\ tries = 0 /\ solution_found = FALSE
    /\ rejected_solutions = 0 /\ tHof = <<>> /\ report = "none"

\* the arguments of the runs explored
Config ==
    [rooms |-> rooms, timeslots |-> timeslots,
     lesson_instances |-> Tab.lesson_instances, npop |-> NPop]

\* the tables toolbox.evaluate is registered with under the arguments c
TabOf(c) == [Tab EXCEPT !.lesson_instances = c.lesson_instances]

\* the initial genomes explored under the arguments c
InitGenomesOf(c) ==
    IF c.lesson_instances = Tab.lesson_instances
    THEN InitGenomes \cap create_individual(c.rooms, c.timeslots, Len(c.lesson_instances))
    ELSE create_individual(c.rooms, c.timeslots, Len(c.lesson_instances))

\* an individual that was never evaluated: no fitness values, no reasons
NewIndividual(genes) == [genes |-> genes, fitness |-> <<>>, reasons |-> <<>>]

\* Evaluated without the assignment to ind.reasons
Evaluated_staleReasons(ind) ==
    IF ind.fitness # <<>> THEN ind
    ELSE LET r == evaluate_schedule(ind.genes, TabOf(cfg))
         IN  [ind EXCEPT !.fitness = <<r.violations>>]

\* ind.fitness.values = toolbox.evaluate(ind) for an individual with an
\* invalid fitness; evaluate_schedule also sets ind.reasons
Evaluated(ind) ==
    IF ind.fitness # <<>> THEN ind
    ELSE LET r == evaluate_schedule(ind.genes, TabOf(cfg))
         IN  [ind EXCEPT !.fitness = <<r.violations>>, !.reasons = r.reasons]

\* the evaluation of some individual of p with an invalid fitness raises: the
\* exception leaves eaSimple and execute_genAlgorithm
AnyRaises(p) ==
    \E i \in 1..Len(p) : p[i].fitness = <<>> /\ EvalRaises(p[i].genes, TabOf(cfg))

\* the scores of the individuals of an evaluated population
Scores(p) == {p[i].fitness[1] : i \in 1..Len(p)}

\* a.fitness > b.fitness with weights (-1.0,): the lower score is the fitter
Fitter(a, b) == a.fitness[1] < b.fitness[1]

\* HofStep that only ever fills an empty hall of fame
HofStep_firstOnly(h, p, ind) ==
    IF Len(h) = 0 THEN <<p[1]>> ELSE h

\* HofStep that keeps the latest individual instead of the fittest
HofStep_latest(h, p, ind) ==
    IF Len(h) = 0 THEN <<p[1]>> ELSE <<ind>>

\* one step of HallOfFame.update for individual ind of population p
HofStep(h, p, ind) ==
    IF Len(h) = 0 THEN <<p[1]>>
    ELSE IF Fitter(ind, h[Len(h)]) /\ \A j \in 1..Len(h) : ind.genes # h[j].genes
    THEN <<ind>>
    ELSE h

\* halloffame.update(p)
RECURSIVE HofUpdate(_, _, _)
HofUpdate(h, p, i) ==
    IF i > Len(p) THEN h ELSE HofUpdate(HofStep(h, p, p[i]), p, i + 1)

\* max(aspirants, key=attrgetter("fitness")): the first fittest aspirant
TournamentWinner(p, asp) ==
    asp[CHOOSE j \in 1..Len(asp) :
            /\ \A k \in 1..Len(asp) : ~Fitter(p[asp[k]], p[asp[j]])
            /\ \A k \in 1..(j - 1) : Fitter(p[asp[j]], p[asp[k]])]

\* the individuals one slot of tools.selTournament can yield
selTournament(p) ==
    {TournamentWinner(p, asp) : asp \in [1..TournSize -> 1..Len(p)]}

GaInit ==
    /\ cfg = Config
    /\ pc = "START"
    /\ pop = <<>>
    /\ sel = <<>>
    /\ offspring = <<>>
    /\ touched = {}
    /\ hof = <<>>
    /\ gen = 0
    /\ ngen \in 0..MaxGen
    /\ result = [status |-> "none"]
    /\ seen = {}
    /\ EvIdle
    /\ OpIdle
    /\ RtIdle

\* random.choice raises IndexError on an empty list: the first gene of the
\* first individual cannot be drawn
ChoiceRaises(c) ==
    /\ c.npop > 0
    /\ Len(c.lesson_instances) > 0
    /\ c.rooms = <<>> \/ c.timeslots = <<>>

\* pop = toolbox.population(n=npop)
CreatePopulation ==
    /\ pc = "START"
    /\ IF ChoiceRaises(cfg)
       THEN /\ pc' = "RAISED"
            /\ UNCHANGED pop
       ELSE /\ \E gs \in [1..cfg.npop -> InitGenomesOf(cfg)] :
                   pop' = [i \in 1..cfg.npop |-> NewIndividual(gs[i])]
            /\ pc' = "INITIALIZED"
    /\ UNCHANGED <<cfg, sel, offspring, touched, hof, gen, ngen, result, seen>>
    /\ UNCHANGED <<evVars, opVars, rtVars>>

\* eaSimple before its loop: evaluate the population, update the hall of
\* fame, compile the statistics (min of no fitness value raises ValueError)
EvaluateInitial ==
    /\ pc = "INITIALIZED"
    /\ IF AnyRaises(pop) \/ Len(pop) = 0
       THEN /\ pc' = "RAISED"
            /\ UNCHANGED <<pop, hof, seen>>
       ELSE /\ pop' = [i \in 1..Len(pop) |-> Evaluated(pop[i])]
            /\ hof' = HofUpdate(hof, pop', 1)
            /\ seen' = seen \cup Scores(pop')
            /\ pc' = "EVALUATED"
    /\ UNCHANGED <<cfg, sel, offspring, touched, gen, ngen, result>>
    /\ UNCHANGED <<evVars, opVars, rtVars>>

\* offspring = toolbox.select(population, len(population))
Select ==
    /\ pc = "EVALUATED"
    /\ gen < ngen
    /\ sel' \in [1..Len(pop) -> selTournament(pop)]
    /\ pc' = "SELECTED"
    /\ UNCHANGED <<cfg, pop, offspring, touched, hof, gen, ngen, result, seen>>
    /\ UNCHANGED <<evVars, opVars, rtVars>>

\* the pairs varAnd mates: offspring[i - 1], offspring[i] for odd 0-based i
MatePairs(n) == {i \in 1..n : i % 2 = 1 /\ i + 1 <= n}

\* number of genes a sequence of draws re-draws
RECURSIVE Redraws(_)
Redraws(ds) ==
    IF ds = <<>> THEN 0
    ELSE (IF Head(ds).kind = "keep" THEN 0 ELSE 1) + Redraws(Tail(ds))

\* the draws of one mutate_individual call, registered with the lists rs and
\* ts, that re-draw at most n genes
MutateDraws(len, rs, ts, n) ==
    {ds \in [1..len -> GeneDraws(rs, ts)] : Redraws(ds) <= n}

\* Mated that puts one child in the place of the two parents
Mated_oneChild(off, i, cx) ==
    IF ~cx.hit THEN off
    ELSE LET ch == crossover_individual(off[i].genes, off[i + 1].genes, cx.a, cx.b)
         IN  SubSeq(off, 1, i - 1)
                 \o <<[off[i] EXCEPT !.genes = ch[1], !.fitness = <<>>]>>
                 \o SubSeq(off, i + 2, Len(off))

\* varAnd after the clones are made, for pair i under the draw cx:
\* mate with probability cxpb and delete both fitness values
Mated(off, i, cx) ==
    IF ~cx.hit THEN off
    ELSE LET ch == crossover_individual(off[i].genes, off[i + 1].genes, cx.a, cx.b)
         IN  [off EXCEPT ![i] = [@ EXCEPT !.genes = ch[1], !.fitness = <<>>],
                         ![i + 1] = [@ EXCEPT !.genes = ch[2], !.fitness = <<>>]]

\* the first loop of varAnd
RECURSIVE MateAll(_, _, _)
MateAll(off, cxs, i) ==
    IF i + 1 > Len(off) THEN off
    ELSE MateAll(Mated(off, i, cxs[i]), cxs, i + 2)

\* the second loop of varAnd, for individual i under the draw mu:
\* mutate with probability mutpb and delete the fitness values
Mutated(ind, mu) ==
    IF ~mu.hit THEN ind
    ELSE [ind EXCEPT !.genes = mutate_individual(@, mu.ds), !.fitness = <<>>]

\* the outcomes of random() < cxpb and of the two cuts, for one pair of
\* genomes of length len (no cut is drawn for a length below 2)
CxDraws(len) ==
    {[hit |-> FALSE, a |-> 1, b |-> 1]}
    \cup {[hit |-> TRUE, a |-> a, b |-> b] :
              a \in IF len < 2 THEN {1} ELSE Cuts(len),
              b \in IF len < 2 THEN {1} ELSE Cuts(len)}

\* the outcomes of random() < mutpb and of the draws of the call, for one
\* individual
MuDraws(c) ==
    {[hit |-> FALSE, ds |-> <<>>]}
    \cup {[hit |-> TRUE, ds |-> ds] :
              ds \in MutateDraws(Len(c.lesson_instances), c.rooms, c.timeslots,
                                 MaxRedraws)}

\* the outcomes of the draws of one generation explored: one per mated pair
\* and one per individual, re-drawing at most MaxRedraws genes in all
VaryDraws(c) ==
    LET RECURSIVE Total(_, _)
        Total(mus, i) == IF i > c.npop THEN 0
                         ELSE Redraws(mus[i].ds) + Total(mus, i + 1)
    IN  {d \in [cxs : [MatePairs(c.npop) -> CxDraws(Len(c.lesson_instances))],
                mus : [1..c.npop -> MuDraws(c)]] :
            Total(d.mus, 1) <= MaxRedraws}

\* the positions of the n offspring that varAnd changed under the draws d:
\* those of a mated pair and those mutated
Touched(d, n) ==
    {i \in 1..n : d.mus[i].hit}
    \cup {i \in 1..n : \E p \in DOMAIN d.cxs : d.cxs[p].hit /\ i \in {p, p + 1}}

\* varAnd without the clones: mate and mutate work on the selected
\* individuals themselves, so that two positions of the selection that hold
\* the same individual of the population share what either of them gets
varAnd_shared(population, selection, d) ==
    LET RECURSIVE MateShared(_, _)
        MateShared(heap, i) ==
            IF i + 1 > Len(selection) THEN heap
            ELSE IF ~d.cxs[i].hit THEN MateShared(heap, i + 2)
            ELSE LET p == selection[i]
                     q == selection[i + 1]
                     ch == crossover_individual(heap[p].genes, heap[q].genes,
                                                d.cxs[i].a, d.cxs[i].b)
                     h1 == [heap EXCEPT ![p] = [@ EXCEPT !.genes = ch[1],
                                                         !.fitness = <<>>]]
                     h2 == [h1 EXCEPT ![q] = [@ EXCEPT !.genes = ch[2],
                                                       !.fitness = <<>>]]
                 IN  MateShared(h2, i + 2)
        RECURSIVE MutateShared(_, _)
        MutateShared(heap, i) ==
            IF i > Len(selection) THEN heap
            ELSE MutateShared([heap EXCEPT ![selection[i]] = Mutated(@, d.mus[i])],
                              i + 1)
        heap == MutateShared(MateShared(population, 1), 1)
    IN  [i \in 1..Len(selection) |-> heap[selection[i]]]

\* varAnd(offspring, toolbox, cxpb, mutpb) on the individuals that selection
\* picked from population, under the draws d: clone each, mate the pairs,
\* mutate each
varAnd(population, selection, d) ==
    LET clones == [i \in 1..Len(selection) |-> population[selection[i]]]
        mated == MateAll(clones, d.cxs, 1)
    IN  [i \in 1..Len(mated) |-> Mutated(mated[i], d.mus[i])]

\* offspring = varAnd(offspring, toolbox, cxpb, mutpb)
Vary ==
    /\ pc = "SELECTED"
    /\ \E d \in VaryDraws(cfg) :
           /\ offspring' = varAnd(pop, sel, d)
           /\ touched' = Touched(d, Len(sel))
    /\ pc' = "VARIED"
    /\ UNCHANGED <<cfg, pop, sel, hof, gen, ngen, result, seen>>
    /\ UNCHANGED <<evVars, opVars, rtVars>>

\* the rest of the loop body: evaluate the offspring with an invalid fitness,
\* update the hall of fame, population[:] = offspring
EvaluateOffspring ==
    /\ pc = "VARIED"
    /\ IF AnyRaises(offspring)
       THEN /\ pc' = "RAISED"
            /\ UNCHANGED <<pop, sel, offspring, touched, hof, gen, seen>>
       ELSE LET evaluated ==
                    [i \in 1..Len(offspring) |-> Evaluated(offspring[i])]
            IN  /\ hof' = HofUpdate(hof, evaluated, 1)
                /\ pop' = evaluated
                /\ seen' = seen \cup Scores(evaluated)
                /\ offspring' = <<>>
                /\ touched' = {}
                /\ sel' = <<>>
                /\ gen' = gen + 1
                /\ pc' = "EVALUATED"
    /\ UNCHANGED <<cfg, ngen, result>>
    /\ UNCHANGED <<evVars, opVars, rtVars>>

\* mapping = {lesson: best[idx] for idx, lesson in enumerate(lesson_instances)}
Mapping(best, lessons) ==
    [l \in {lessons[i] : i \in 1..Len(lessons)} |->
        best[CHOOSE i \in 1..Len(lessons) :
                 lessons[i] = l /\ \A j \in (i + 1)..Len(lessons) : lessons[j] # l]]

\* Terminate that also leaves the loop as soon as the elite scores 0
Terminate_onZero ==
    /\ pc = "EVALUATED"
    /\ gen = ngen \/ hof[1].fitness[1] = 0
    /\ result' = [status |-> "returned",
                  best |-> hof[1].genes,
                  fitness_value |-> hof[1].fitness[1],
                  reasons |-> hof[1].reasons,
                  mapping |-> Mapping(hof[1].genes, cfg.lesson_instances)]
    /\ pc' = "TERMINATED"
    /\ UNCHANGED <<cfg, pop, sel, offspring, touched, hof, gen, ngen, seen>>
    /\ UNCHANGED <<evVars, opVars, rtVars>>

\* after eaSimple returns: best = hof[0] and the four return values
Terminate ==
    /\ pc = "EVALUATED"
    /\ gen = ngen
    /\ result' = [status |-> "returned",
                  best |-> hof[1].genes,
                  fitness_value |-> hof[1].fitness[1],
                  reasons |-> hof[1].reasons,
                  mapping |-> Mapping(hof[1].genes, cfg.lesson_instances)]
    /\ pc' = "TERMINATED"
    /\ UNCHANGED <<cfg, pop, sel, offspring, touched, hof, gen, ngen, seen>>
    /\ UNCHANGED <<evVars, opVars, rtVars>>

GaNext ==
    \/ CreatePopulation
    \/ EvaluateInitial
    \/ Select
    \/ Vary
    \/ EvaluateOffspring
    \/ Terminate

vars == <<gaVars, evVars, opVars, rtVars>>

Init == GaInit

Next == GaNext

Spec == Init /\ [][Next]_vars

\* ------------------------------------------------------------------------
\* execute_genAlgorithm called with arguments that are configuration errors
\* ------------------------------------------------------------------------

\* an empty rooms or timeslots list, no lesson, or a population below two
ConfigError(c) ==
    \/ c.rooms = <<>>
    \/ c.timeslots = <<>>
    \/ c.lesson_instances = <<>>
    \/ c.npop < 2

\* the erroneous arguments explored
BadConfigs ==
    {c \in [rooms : {<<>>, rooms}, timeslots : {<<>>, timeslots},
            lesson_instances : {<<>>, Tab.lesson_instances}, npop : 0..NPop] :
        ConfigError(c)}

CfgInit ==
    /\ cfg \in BadConfigs
    /\ pc = "START"
    /\ pop = <<>>
    /\ sel = <<>>
    /\ offspring = <<>>
    /\ touched = {}
    /\ hof = <<>>
    /\ gen = 0
    /\ ngen \in 0..MaxGen
    /\ result = [status |-> "none"]
    /\ seen = {}
    /\ EvIdle
    /\ OpIdle
    /\ RtIdle

CfgSpec == CfgInit /\ [][Next]_vars

\* ------------------------------------------------------------------------
\* evaluate_schedule called on its own, on genomes and tables of any content
\* ------------------------------------------------------------------------

\* most lessons of the lesson lists explored
MaxLessons == 3

\* lesson i of the lesson lists explored: classes A and B in turn
Lesson(i) ==
    <<IF i % 2 = 1 THEN "A" ELSE "B", IF i % 3 = 1 THEN "Math" ELSE "Art", i>>

\* the rooms genes are explored with (R9 is in no capacity table) and the
\* timeslots
EvalRooms == {"R1", "R2", "R9"}
EvalTimeslots == {"T1", "T2"}

\* the teacher_of_lesson tables explored for n lessons: no teacher at all, one
\* teacher for all, two teachers in turn, and a table with a teacher that has
\* no profile and an empty teacher id
TeacherMaps(n) ==
    { <<>>,
      [idx \in 0..(n - 1) |-> "P1"],
      [idx \in 0..(n - 1) |-> IF idx % 2 = 0 THEN "P1" ELSE "P2"],
      [idx \in 0..(n - 1) |-> IF idx = 0 THEN "P3" ELSE ""] }

\* the teacher_info tables explored
TeacherInfos ==
    { [P1 |-> [teacher_name |-> "Ana",
               teacher_preferred_periods |-> <<" ", "T1", ",", " ", "T2">>,
               teacher_favorites_subject |-> <<"Math", ",", "Art", " ">>,
               teacher_max_workload |-> 2],
       P2 |-> [teacher_preferred_periods |-> <<"T2">>,
               teacher_favorites_subject |-> <<" ", ",", " ">>]],
      [P1 |-> [teacher_name |-> "Ana",
               teacher_preferred_periods |-> <<>>,
               teacher_favorites_subject |-> <<"Math">>,
               teacher_max_workload |-> 1],
       P2 |-> [teacher_name |-> "Bia",
               teacher_preferred_periods |-> <<"T1", ",">>,
               teacher_max_workload |-> 0]] }

\* a teacher_info table whose one teacher states one preferred period and one
\* favourite subject, so that a lesson can miss both
StrictInfo ==
    [P1 |-> [teacher_preferred_periods |-> <<"T1">>,
             teacher_favorites_subject |-> <<"Art">>]]

\* malformed lessons: an id without "::" (split gives one field), and a
\* lesson of a class that class_students does not hold
BadLessons == { <<"A">>, <<"Z", "Math", 1>> }

\* the domain tables explored: well-formed ones, ones where the strict teacher
\* holds every lesson, and ones without teachers whose last lesson is malformed
EvalTables ==
    {[lesson_instances |-> [i \in 1..n |-> Lesson(i)],
      rooms_capacity |-> [R1 |-> 30, R2 |-> 20],
      class_students |-> [A |-> 25, B |-> 10],
      teacher_of_lesson |-> tol,
      teacher_info |-> ti] :
        n \in 1..MaxLessons, tol \in UNION {TeacherMaps(m) : m \in 1..MaxLessons},
        ti \in TeacherInfos}
    \cup
    {[lesson_instances |-> [i \in 1..n |-> Lesson(i)],
      rooms_capacity |-> [R1 |-> 30, R2 |-> 20],
      class_students |-> [A |-> 25, B |-> 10],
      teacher_of_lesson |-> [idx \in 0..(n - 1) |-> "P1"],
      teacher_info |-> StrictInfo] :
        n \in 1..MaxLessons}
    \cup
    {[lesson_instances |-> [i \in 1..n |-> IF i = n THEN bad ELSE Lesson(i)],
      rooms_capacity |-> [R1 |-> 30, R2 |-> 20],
      class_students |-> [A |-> 25, B |-> 10],
      teacher_of_lesson |-> <<>>,
      teacher_info |-> <<>>] :
        n \in 1..MaxLessons, bad \in BadLessons}

\* EvalOutcome with a reasons list that outlives the call (a module-level
\* list, or a mutable default argument) instead of the fresh local of line 33
EvalOutcome_carried(individual, T) ==
    IF EvalRaises(individual, T) THEN [raised |-> TRUE]
    ELSE LET st == AfterWorkload(individual, T)
             kept == IF "st" \in DOMAIN eOut THEN eOut.st.reasons ELSE <<>>
         IN  [raised |-> FALSE, st |-> [st EXCEPT !.reasons = kept \o @]]

\* what a call leaves: the exception, or the evaluator's final state (its
\* violations and reasons are the return value and individual.reasons)
EvalOutcome(individual, T) ==
    IF EvalRaises(individual, T) THEN [raised |-> TRUE]
    ELSE [raised |-> FALSE, st |-> AfterWorkload(individual, T)]

EvInit ==
    /\ GaIdle
    /\ OpIdle
    /\ RtIdle
    /\ ePc = "INPUT"
    /\ eTab \in EvalTables
    /\ Len(eTab.lesson_instances) = Cardinality(DOMAIN eTab.teacher_of_lesson)
           \/ eTab.teacher_of_lesson = <<>>
    /\ eInd \in [1..Len(eTab.lesson_instances) -> EvalRooms \X EvalTimeslots]
    /\ eOut = [raised |-> FALSE]
    /\ ePrev = [raised |-> FALSE]
    /\ eLog = <<>>

\* the entry of the history for a call on individual that left out
Logged(individual, out) == [genes |-> individual, out |-> out]

\* evaluate_schedule(eInd, ...)
EvalCall ==
    /\ ePc = "INPUT"
    /\ eOut' = EvalOutcome(eInd, eTab)
    /\ eLog' = Append(eLog, Logged(eInd, eOut'))
    /\ ePc' = "EVALUATED"
    /\ UNCHANGED <<eInd, eTab, ePrev>>
    /\ UNCHANGED <<gaVars, opVars, rtVars>>

\* the genome with the genes at positions i and j exchanged
Swapped(individual, i, j) ==
    [individual EXCEPT ![i] = individual[j], ![j] = individual[i]]

\* a second call, on the genome with two of its genes exchanged
EvalSwapCall ==
    /\ ePc = "EVALUATED"
    /\ \E i, j \in 1..Len(eInd) :
           /\ i < j
           /\ eInd' = Swapped(eInd, i, j)
    /\ ePrev' = eOut
    /\ eOut' = EvalOutcome(eInd', eTab)
    /\ eLog' = Append(eLog, Logged(eInd', eOut'))
    /\ ePc' = "SWAPPED"
    /\ UNCHANGED <<eTab>>
    /\ UNCHANGED <<gaVars, opVars, rtVars>>

\* a third call, on a genome equal to one of the two evaluated before: the
\* one of the first call (the second call ran in between) or of the second
EvalRepeatCall ==
    /\ ePc = "SWAPPED"
    /\ \E k \in 1..Len(eLog) : eInd' = eLog[k].genes
    /\ ePrev' = eOut
    /\ eOut' = EvalOutcome(eInd', eTab)
    /\ eLog' = Append(eLog, Logged(eInd', eOut'))
    /\ ePc' = "REPEATED"
    /\ UNCHANGED <<eTab>>
    /\ UNCHANGED <<gaVars, opVars, rtVars>>

EvNext ==
    \/ EvalCall
    \/ EvalSwapCall
    \/ EvalRepeatCall

EvalSpec == EvInit /\ [][EvNext]_vars

----------------------------------------------------------------------------
\* main.py: the tables main builds from the loaded data and hands to
\* execute_genAlgorithm, and the evaluator's calls on them

\* the rows of df_teachers explored (teachers.csv holds no available_*
\* columns here, so r.get takes the defaults)
TeacherRows ==
    { << [teacher_id |-> "P1", name |-> "Ana", max_workload |-> 1,
          main_subject |-> "Math"] >>,
      << [teacher_id |-> "P1", name |-> "Ana", max_workload |-> 2,
          main_subject |-> "Math"],
         [teacher_id |-> "P2", name |-> "Bia", max_workload |-> 0,
          main_subject |-> "Art"] >> }

\* for _, r in df_teachers.iterrows(): teachers_info[r["teacher_id"]] = {...}
\* (a later row of the same id replaces the earlier one)
build_teachers_info(df_teachers) ==
    [tid \in {df_teachers[k].teacher_id : k \in DOMAIN df_teachers} |->
        LET k == CHOOSE k \in DOMAIN df_teachers :
                     /\ df_teachers[k].teacher_id = tid
                     /\ \A m \in DOMAIN df_teachers :
                            df_teachers[m].teacher_id = tid => m <= k
            r == df_teachers[k]
        IN  [name |-> r.name,
             available_morning |-> TRUE,
             available_afternoon |-> TRUE,
             available_evening |-> FALSE,
             max_workload |-> r.max_workload,
             main_subject |-> r.main_subject]]

\* the outcomes of teacher_of_lesson[idx] = random.choice(teacher_ids)
TeacherPicks(lesson_instances, df_teachers) ==
    [0..(Len(lesson_instances) - 1) -> DOMAIN build_teachers_info(df_teachers)]

\* build_teacher_assignment_map(lesson_instances, df_assignments, df_teachers)
\* with picks the outcomes of its random choices
build_teacher_assignment_map(lesson_instances, df_teachers, picks) ==
    <<picks, build_teachers_info(df_teachers)>>

\* the tables main passes on, for the lesson lists and teacher rows explored
MainTables ==
    {LET lesson_instances == [i \in 1..n |-> Lesson(i)]
     IN  {LET built == build_teacher_assignment_map(lesson_instances, rows, picks)
          IN  [lesson_instances |-> lesson_instances,
               rooms_capacity |-> [R1 |-> 30, R2 |-> 20],
               class_students |-> [A |-> 25, B |-> 10],
               teacher_of_lesson |-> built[1],
               teacher_info |-> built[2]] :
              picks \in TeacherPicks(lesson_instances, rows)} :
        n \in 1..MaxLessons, rows \in TeacherRows}

\* genes are drawn from rooms = df_rooms["room_id"].tolist(), the rooms of
\* rooms_capacity, and from the timeslots
MainInit ==
    /\ GaIdle
    /\ OpIdle
    /\ RtIdle
    /\ ePc = "INPUT"
    /\ eTab \in UNION MainTables
    /\ eInd \in [1..Len(eTab.lesson_instances) ->
                     (DOMAIN eTab.rooms_capacity) \X EvalTimeslots]
    /\ eOut = [raised |-> FALSE]
    /\ ePrev = [raised |-> FALSE]
    /\ eLog = <<>>

MainSpec == MainInit /\ [][EvNext]_vars

\* ------------------------------------------------------------------------
\* evaluate_schedule called on two genomes over one lesson list
\* ------------------------------------------------------------------------

\* tables of four lessons with a teacher each, the teachers preferring one
\* timeslot (the fourth one the periods given); room R2 is one seat short
\* for class A
PairTab(periods) ==
    [lesson_instances |-> [i \in 1..4 |-> Lesson(i)],
     rooms_capacity |-> [R1 |-> 30, R2 |-> 24],
     class_students |-> [A |-> 25, B |-> 10],
     teacher_of_lesson |-> [idx \in 0..3 |-> <<"P1", "P2", "P3", "P4">>[idx + 1]],
     teacher_info |->
         [P1 |-> [teacher_name |-> "Ana", teacher_preferred_periods |-> <<"T1">>,
                  teacher_favorites_subject |-> <<"Art">>],
          P2 |-> [teacher_name |-> "Bia", teacher_preferred_periods |-> <<"T1">>,
                  teacher_max_workload |-> 1],
          P3 |-> [teacher_name |-> "Caio", teacher_preferred_periods |-> <<"T2">>],
          P4 |-> [teacher_name |-> "Dora", teacher_preferred_periods |-> periods]]]

\* the tables explored: the fourth teacher with and without a preference
PairTabs == {PairTab(<<"T2">>), PairTab(<<>>)}

\* the genomes explored over tables T
PairGenomes(T) ==
    [1..Len(T.lesson_instances) -> (DOMAIN T.rooms_capacity) \X EvalTimeslots]

PairInit ==
    /\ GaIdle
    /\ OpIdle
    /\ RtIdle
    /\ ePc = "INPUT"
    /\ eTab \in PairTabs
    /\ eInd \in PairGenomes(eTab)
    /\ eOut = [raised |-> FALSE]
    /\ ePrev = [raised |-> FALSE]
    /\ eLog = <<>>

\* a second call, on any genome over the same lesson list and tables
EvalOtherCall ==
    /\ ePc = "EVALUATED"
    /\ eInd' \in PairGenomes(eTab)
    /\ ePrev' = eOut
    /\ eOut' = EvalOutcome(eInd', eTab)
    /\ eLog' = Append(eLog, Logged(eInd', eOut'))
    /\ ePc' = "COMPARED"
    /\ UNCHANGED <<eTab>>
    /\ UNCHANGED <<gaVars, opVars, rtVars>>

PairNext ==
    \/ EvalCall
    \/ EvalOtherCall

PairSpec == PairInit /\ [][PairNext]_vars

\* ------------------------------------------------------------------------
\* The variation operators called on their own, on any two genomes
\* ------------------------------------------------------------------------

\* longest genome explored
MaxLen == 3

\* the genomes of a length: the first of any content, the second uniform
OpGenes == {<<rooms[i], timeslots[j]>> : i \in 1..Len(rooms), j \in 1..Len(timeslots)}

OpInit ==
    /\ GaIdle
    /\ EvIdle
    /\ RtIdle
    /\ oPc = "INPUT"
    /\ \E len \in 0..MaxLen :
           oIn \in {<<g1, [k \in 1..len |-> g]>> : g1 \in [1..len -> OpGenes], g \in OpGenes}
    /\ oArg = oIn
    /\ oRet = <<>>

\* crossover_individual(ind1, ind2): it works on its arguments in place and
\* returns them
OpCrossover ==
    /\ oPc = "INPUT"
    /\ \E a \in Cuts(Len(oIn[1])) \cup {1}, b \in Cuts(Len(oIn[1])) \cup {1} :
           oArg' = crossover_individual(oIn[1], oIn[2], a, b)
    /\ oRet' = oArg'
    /\ oPc' = "CROSSED"
    /\ UNCHANGED <<oIn>>
    /\ UNCHANGED <<gaVars, evVars, rtVars>>

\* OpMutate for a mutate_individual that works on a copy of its argument and
\* returns the copy
OpMutate_onCopy ==
    /\ oPc = "INPUT"
    /\ \E ds \in [1..Len(oIn[1]) -> GeneDraws(rooms, timeslots)] :
           oRet' = <<mutate_individual(oIn[1], ds)>>
    /\ oArg' = oIn
    /\ oPc' = "MUTATED"
    /\ UNCHANGED <<oIn>>
    /\ UNCHANGED <<gaVars, evVars, rtVars>>

\* mutate_individual(ind1, rooms, timeslots): it works on its argument in
\* place and returns it in a 1-tuple
OpMutate ==
    /\ oPc = "INPUT"
    /\ \E ds \in [1..Len(oIn[1]) -> GeneDraws(rooms, timeslots)] :
           oArg' = <<mutate_individual(oIn[1], ds), oIn[2]>>
    /\ oRet' = <<oArg'[1]>>
    /\ oPc' = "MUTATED"
    /\ UNCHANGED <<oIn>>
    /\ UNCHANGED <<gaVars, evVars, rtVars>>

OpNext ==
    \/ OpCrossover
    \/ OpMutate

OpSpec == OpInit /\ [][OpNext]_vars

----------------------------------------------------------------------------
\* analyze_solution: the report of the returned genome, one block of sorted
\* lessons per class

MaxSlots == 3

\* weekday_order's index of a weekday that its table does not hold
UnknownWeekday == 99

\* weekday_order that puts the weekdays its table does not hold first
weekday_order_unknownFirst(weekday) ==
    CASE weekday \in {"Monday", "Segunda"} -> 0
      [] weekday \in {"Tuesday", "Terça"} -> 1
      [] weekday \in {"Wednesday", "Quarta"} -> 2
      [] weekday \in {"Thursday", "Quinta"} -> 3
      [] weekday \in {"Friday", "Sexta"} -> 4
      [] OTHER -> 0 - UnknownWeekday

\* order.get(weekday, 99)
weekday_order(weekday) ==
    CASE weekday \in {"Monday", "Segunda"} -> 0
      [] weekday \in {"Tuesday", "Terça"} -> 1
      [] weekday \in {"Wednesday", "Quarta"} -> 2
      [] weekday \in {"Thursday", "Quinta"} -> 3
      [] weekday \in {"Friday", "Sexta"} -> 4
      [] OTHER -> UnknownWeekday

\* a < b on two strings given as their sequences of code points
RECURSIVE TextLess(_, _)
TextLess(a, b) ==
    IF b = <<>> THEN FALSE
    ELSE IF a = <<>> THEN TRUE
    ELSE IF Head(a) # Head(b) THEN Head(a) < Head(b)
    ELSE TextLess(Tail(a), Tail(b))

\* the code points of the labels and timeslot ids explored
Text ==
    [M1 |-> <<77, 49>>, M10 |-> <<77, 49, 48>>, M2 |-> <<77, 50>>,
     S0 |-> <<83, 48>>]

\* schedule_meta of the reports explored; the timeslot S0 has no entry
ScheduleMeta ==
    [S1 |-> [weekday |-> "Monday", label |-> Text.M2],
     S2 |-> [weekday |-> "Friday", label |-> Text.M10],
     S3 |-> [weekday |-> "Saturday", label |-> Text.M2],
     S4 |-> [weekday |-> "Sunday", label |-> Text.M1],
     S5 |-> [weekday |-> "Segunda", label |-> Text.M1],
     S6 |-> [weekday |-> "Feriado", label |-> Text.M1]]

\* schedule_meta.get(timeslot, {"weekday": "?", ..., "label": timeslot})
MetaOf(timeslot) ==
    IF timeslot \in DOMAIN ScheduleMeta THEN ScheduleMeta[timeslot]
    ELSE [weekday |-> "?", label |-> Text[timeslot]]

\* the entry appended to schedule_by_class for a lesson and its gene
Slot(lesson, gene) ==
    [subject |-> lesson[2], room |-> gene[1], timeslot |-> gene[2],
     weekday |-> MetaOf(gene[2]).weekday, label |-> MetaOf(gene[2]).label]

\* for lesson in lesson_instances: schedule_by_class.setdefault(...).append(...)
RECURSIVE GroupByClass(_, _, _, _)
GroupByClass(lesson_instances, mapping, i, acc) ==
    IF i > Len(lesson_instances) THEN acc
    ELSE GroupByClass(lesson_instances, mapping, i + 1,
                      DictAppend(acc, lesson_instances[i][1],
                                 Slot(lesson_instances[i], mapping[i])))

\* key(s) < key(t) for key = lambda s: (weekday_order(s["weekday"]), s["label"])
KeyLess(s, t) ==
    \/ weekday_order(s.weekday) < weekday_order(t.weekday)
    \/ /\ weekday_order(s.weekday) = weekday_order(t.weekday)
       /\ TextLess(s.label, t.label)

\* sorted(slots, key=...): a stable sort, built by inserting each slot behind
\* the slots whose key is not above its own
RECURSIVE slots_sorted(_)
slots_sorted(slots) ==
    IF slots = <<>> THEN <<>>
    ELSE LET front == slots_sorted(SubSeq(slots, 1, Len(slots) - 1))
             s == slots[Len(slots)]
             n == Cardinality({j \in 1..Len(front) : ~KeyLess(s, front[j])})
         IN  SubSeq(front, 1, n) \o <<s>> \o SubSeq(front, n + 1, Len(front))

\* the blocks analyze_solution prints, in the order of schedule_by_class
analyze_solution(lesson_instances, mapping) ==
    LET schedule_by_class == GroupByClass(lesson_instances, mapping, 1, <<>>)
    IN  [b \in 1..Len(schedule_by_class) |->
            [k |-> schedule_by_class[b].k,
             v |-> slots_sorted(schedule_by_class[b].v)]]

\* the reports explored: up to MaxSlots lessons of the classes A and B, each
\* mapped to room R1 and one of the timeslots
ReportInit ==
    /\ GaIdle
    /\ EvIdle
    /\ RtIdle
    /\ oPc = "INPUT"
    /\ \E len \in 0..MaxSlots :
           \E cs \in [1..len -> {"A", "B"}],
              ts \in [1..len -> DOMAIN ScheduleMeta \cup {"S0"}] :
               oIn = [lesson_instances |-> [i \in 1..len |-> <<cs[i], "Math", i>>],
                      mapping |-> [i \in 1..len |-> <<"R1", ts[i]>>]]
    /\ oArg = <<>>
    /\ oRet = <<>>

\* analyze_solution(best, fitness, reasons, mapping, lesson_instances, ...)
AnalyzeSolution ==
    /\ oPc = "INPUT"
    /\ oRet' = analyze_solution(oIn.lesson_instances, oIn.mapping)
    /\ oPc' = "REPORTED"
    /\ UNCHANGED <<oIn, oArg>>
    /\ UNCHANGED <<gaVars, evVars, rtVars>>

ReportNext == AnalyzeSolution

ReportSpec == ReportInit /\ [][ReportNext]_vars

\* ------------------------------------------------------------------------
\* The callers of the search: main() of main.py and of teacher_assignment.py
\* ------------------------------------------------------------------------

\* the loop of teacher_assignment.main consults the user every so many tries
max_tries_before_suggestion == 100

\* rejected_solutions is only printed and compared with 0: it is kept up to
\* this value
MaxRejected == 2

\* longest hall of fame an attempt returns (the search keeps one elite)
MaxHof == 1

\* the individuals an attempt can leave in its hall of fame: with or without
\* violations, with distinct rooms or with one room twice
HofIndividuals ==
    [genes : { << <<"R1", "T1">>, <<"R2", "T1">> >>,
               << <<"R1", "T1">>, <<"R1", "T2">> >> },
     fitness : { <<0, 50>>, <<10, 50>> }]

\* what one attempt can return as its hall of fame
HofOutcomes == UNION {[1..n -> HofIndividuals] : n \in 1..MaxHof}

\* check_distinct_class(solution): all rooms of the solution are distinct
check_distinct_class(solution) ==
    Cardinality({solution[i][1] : i \in 1..Len(solution)}) = Len(solution)

\* the individual is accepted by the loop body: no violation, rooms distinct
Accepted(ind) == ind.fitness[1] = 0 /\ check_distinct_class(ind.genes)

\* `for ind in hof:` from individual i on: whether a solution is found, and
\* the individuals rejected before it
RECURSIVE HofScan(_, _, _)
HofScan(h, i, rejected) ==
    IF i > Len(h) THEN [found |-> FALSE, rejected |-> rejected]
    ELSE IF Accepted(h[i]) THEN [found |-> TRUE, rejected |-> rejected]
    ELSE HofScan(h, i + 1, rejected + 1)

RetryInit ==
    /\ GaIdle
    /\ EvIdle
    /\ OpIdle
    /\ rPc = "START"
    /\ caller \in {"main", "teacher_assignment"}
    /\ tries = 0
    /\ solution_found = FALSE
    /\ rejected_solutions = 0
    /\ tHof = <<>>
    /\ report = "none"

\* main.py: one call of execute_genAlgorithm, then analyze_solution prints
\* the best schedule found with its reasons
MainRun ==
    /\ rPc = "START"
    /\ caller = "main"
    /\ tHof' \in [1..1 -> HofIndividuals]
    /\ report' = IF tHof'[1].fitness[1] = 0 THEN "optimal" ELSE "best"
    /\ rPc' = "DONE"
    /\ UNCHANGED <<caller, tries, solution_found, rejected_solutions>>
    /\ UNCHANGED <<gaVars, evVars, opVars>>

\* teacher_assignment.py: `while not solution_found:` tries += 1 and one
\* attempt
RetryAttempt ==
    /\ rPc \in {"START", "LOOP"}
    /\ caller = "teacher_assignment"
    /\ ~solution_found
    /\ tries' = (tries + 1) % max_tries_before_suggestion
    /\ tHof' \in HofOutcomes
    /\ rPc' = "ATTEMPTED"
    /\ UNCHANGED <<caller, solution_found, rejected_solutions, report>>
    /\ UNCHANGED <<gaVars, evVars, opVars>>

\* `if tries % max_tries_before_suggestion == 0:` ask the user, and return
\* unless the answer is 'y'
RetryAsk ==
    /\ rPc = "ATTEMPTED"
    /\ IF tries = 0
       THEN \E user_input \in {"y", "n"} :
                IF user_input # "y"
                THEN rPc' = "DONE" /\ report' = "interrupted"
                ELSE rPc' = "SCAN" /\ UNCHANGED report
       ELSE rPc' = "SCAN" /\ UNCHANGED report
    /\ UNCHANGED <<caller, tries, solution_found, rejected_solutions, tHof>>
    /\ UNCHANGED <<gaVars, evVars, opVars>>

\* `for ind in hof:` print, save and return at the first accepted
\* individual, count the others as rejected
RetryScan ==
    /\ rPc = "SCAN"
    /\ LET r == HofScan(tHof, 1, 0)
           total == rejected_solutions + r.rejected
       IN  /\ rejected_solutions' =
                  IF total > MaxRejected THEN MaxRejected ELSE total
           /\ solution_found' = r.found
           /\ report' = IF r.found THEN "optimal" ELSE report
           /\ rPc' = IF r.found THEN "DONE" ELSE "LOOP"
    /\ UNCHANGED <<caller, tries, tHof>>
    /\ UNCHANGED <<gaVars, evVars, opVars>>

RetryNext ==
    \/ MainRun
    \/ RetryAttempt
    \/ RetryAsk
    \/ RetryScan

\* the caller is one sequential program: it takes its next step
RetrySpec == RetryInit /\ [][RetryNext]_vars /\ WF_vars(RetryNext)

\* ------------------------------------------------------------------------
\* Properties of the generational loop
\* ------------------------------------------------------------------------

\* every genome a state of the run holds: the population, the offspring and
\* the elite, and the returned best
Genomes ==
    {pop[i].genes : i \in 1..Len(pop)}
    \cup {offspring[i].genes : i \in 1..Len(offspring)}
    \cup {hof[i].genes : i \in 1..Len(hof)}
    \cup (IF result.status = "returned" THEN {result.best} ELSE {})

\* a gene of the offspring of this generation that no member of the population
\* has at its position: it was re-drawn by mutate_individual
RedrawnGene ==
    /\ pc = "VARIED"
    /\ \E i \in 1..Len(offspring) : \E k \in 1..Len(offspring[i].genes) :
           \A j \in 1..Len(pop) : pop[j].genes[k] # offspring[i].genes[k]

\* an offspring of this generation that got a gene of its mate by crossover
CrossedGene ==
    /\ pc = "VARIED"
    /\ \E i \in MatePairs(Len(offspring)) : \E k \in 1..Len(offspring[i].genes) :
           /\ offspring[i].genes[k] # pop[sel[i]].genes[k]
           /\ offspring[i].genes[k] = pop[sel[i + 1]].genes[k]
           /\ offspring[i + 1].genes[k] = pop[sel[i]].genes[k]

\* C1: in every state of a run every genome (population, offspring, elite,
\* returned best) has exactly len(lesson_instances) genes
C1_GenomeLength ==
    \A g \in Genomes : Len(g) = Len(Tab.lesson_instances)

\* C1 witness: a run has returned an elite that is not one of the initial
\* genomes, so it went through crossover or mutation
C1_Witness ==
    /\ pc = "TERMINATED"
    /\ gen >= 1
    /\ result.best \notin InitGenomes
    /\ Len(result.best) = Len(Tab.lesson_instances)

\* C2: in every state of a run every gene's room is in the rooms list and its
\* timeslot is in the timeslots list
C2_GenesInDomain ==
    \A g \in Genomes : \A k \in 1..Len(g) :
        /\ InList(g[k][1], rooms)
        /\ InList(g[k][2], timeslots)

\* C2 witness: the offspring hold a gene that mutate_individual re-drew
C2_Witness == RedrawnGene /\ C2_GenesInDomain

\* the smallest element of a non-empty set of scores
MinOf(S) == CHOOSE x \in S : \A y \in S : x <= y

\* C8: a run with ngen = 0 never selects or varies, and it returns a member of
\* the initial population whose score is the minimum over that population
C8_ZeroGenerations ==
    ngen = 0 =>
        /\ pc \notin {"SELECTED", "VARIED"}
        /\ gen = 0 /\ sel = <<>> /\ offspring = <<>>
        /\ \A i \in 1..Len(pop) : pop[i].genes \in InitGenomes
        /\ pc = "TERMINATED" =>
               /\ result.fitness_value = MinOf(Scores(pop))
               /\ \E i \in 1..Len(pop) :
                      /\ pop[i].genes = result.best
                      /\ pop[i].fitness[1] = MinOf(Scores(pop))

\* C8 witness: a run with ngen = 0 has returned, and the first member of its
\* initial population was not the best one
C8_Witness ==
    /\ ngen = 0
    /\ pc = "TERMINATED"
    /\ pop[1].fitness[1] > result.fitness_value

\* C9: each evaluation step leaves the elite's score equal to the minimum
\* score over all individuals evaluated so far, and no step raises it
C9_EliteIsBestEver ==
    [][/\ pc' = "EVALUATED" => hof'[1].fitness[1] = MinOf(seen')
       /\ (hof # <<>> /\ hof' # <<>>) => hof'[1].fitness[1] <= hof[1].fitness[1]
       /\ hof # <<>> => hof' # <<>>]_vars

\* C9 witness: after a later generation every member of the population is
\* worse than the elite
C9_Witness ==
    /\ pc = "EVALUATED"
    /\ gen >= 1
    /\ \A i \in 1..Len(pop) : pop[i].fitness[1] > hof[1].fitness[1]
    /\ hof[1].fitness[1] = MinOf(seen)

\* C10: the four return values agree: the score and the reasons are those of
\* evaluate_schedule on the returned genome, and the mapping sends lesson i to
\* gene i of it
C10_OutputsConsistent ==
    pc = "TERMINATED" =>
        LET r == evaluate_schedule(result.best, Tab)
        IN  /\ ~r.raised
            /\ result.fitness_value = r.violations
            /\ result.reasons = r.reasons
            /\ \A i \in 1..Len(Tab.lesson_instances) :
                   result.mapping[Tab.lesson_instances[i]] = result.best[i]

\* C10 witness: a run has returned an elite that came out of a mutation or a
\* crossover and has violations left
C10_Witness ==
    /\ pc = "TERMINATED"
    /\ result.best \notin InitGenomes
    /\ result.fitness_value > 0
    /\ result.reasons # <<>>

\* ------------------------------------------------------------------------
\* Properties of evaluate_schedule
\* ------------------------------------------------------------------------

\* a call has returned and left the evaluator's final state in eOut
Returned == ePc \in {"EVALUATED", "SWAPPED"} /\ ~eOut.raised

\* the teacher assigned to the lesson at index i, or None
AssignedTeacher(T, i) ==
    IF (i - 1) \in DOMAIN T.teacher_of_lesson
       /\ T.teacher_of_lesson[i - 1] # ""
    THEN T.teacher_of_lesson[i - 1] ELSE None

\* the items of a comma-separated preference text, read off its characters
\* (every item of the texts explored is a single name)
PrefItems(T, tid, field) ==
    IF tid \in DOMAIN T.teacher_info /\ field \in DOMAIN T.teacher_info[tid]
    THEN {T.teacher_info[tid][field][k] :
             k \in 1..Len(T.teacher_info[tid][field])} \ {",", " "}
    ELSE {}

\* the indexes of the reasons of a kind
ReasonsOfKind(st, kind) ==
    {j \in 1..Len(st.reasons) : st.reasons[j].kind = kind}

\* the lessons of a genome that a teacher holds
LessonsOf(T, individual, tid) ==
    {i \in 1..Len(individual) : AssignedTeacher(T, i) = tid}

\* C3: whenever evaluate_schedule returns, the score is >= 0
C3_ScoreNonNegative ==
    Returned => eOut.st.violations >= 0

\* C3 witness: a call returned after both proportional penalties (capacity
\* and workload) were charged
C3_Witness ==
    /\ Returned
    /\ ReasonsOfKind(eOut.st, "capacity") # {}
    /\ ReasonsOfKind(eOut.st, "workload") # {}
    /\ eOut.st.violations >= 0

\* the genome breaks no rule: rooms known and large enough, no two lessons in
\* one room at one time, no teacher twice at one time, no teacher over the
\* workload limit, every non-empty preference met
Clean(T, individual) ==
    /\ \A i \in 1..Len(individual) :
          /\ Len(T.lesson_instances[i]) >= 2
          /\ T.lesson_instances[i][1] \in DOMAIN T.class_students
          /\ individual[i][1] \in DOMAIN T.rooms_capacity
          /\ T.rooms_capacity[individual[i][1]]
                 >= T.class_students[T.lesson_instances[i][1]]
    /\ \A i, j \in 1..Len(individual) : i # j => individual[i] # individual[j]
    /\ \A i, j \in 1..Len(individual) :
          (i # j /\ AssignedTeacher(T, i) # None
               /\ AssignedTeacher(T, i) = AssignedTeacher(T, j))
              => individual[i][2] # individual[j][2]
    /\ \A tid \in DOMAIN T.teacher_info :
          "teacher_max_workload" \in DOMAIN T.teacher_info[tid]
              => Cardinality(LessonsOf(T, individual, tid))
                     <= T.teacher_info[tid].teacher_max_workload
    /\ \A i \in 1..Len(individual) :
          LET tid == AssignedTeacher(T, i)
              periods == PrefItems(T, tid, "teacher_preferred_periods")
              subjects == PrefItems(T, tid, "teacher_favorites_subject")
          IN  tid # None =>
                  /\ periods # {} => individual[i][2] \in periods
                  /\ subjects # {} => T.lesson_instances[i][2] \in subjects

\* C4: a genome that breaks no rule gets score 0 and no reasons
C4_CleanScoresZero ==
    (ePc \in {"EVALUATED", "SWAPPED"} /\ Clean(eTab, eInd)) =>
        /\ ~eOut.raised
        /\ eOut.st.violations = 0
        /\ eOut.st.reasons = <<>>

\* C4 witness: a clean genome of two or more lessons whose teachers have
\* preferences was evaluated
C4_Witness ==
    /\ Returned
    /\ Clean(eTab, eInd)
    /\ Len(eInd) >= 2
    /\ \E i \in 1..Len(eInd) :
          /\ AssignedTeacher(eTab, i) # None
          /\ PrefItems(eTab, AssignedTeacher(eTab, i), "teacher_preferred_periods") # {}
          /\ PrefItems(eTab, AssignedTeacher(eTab, i), "teacher_favorites_subject") # {}
    /\ eOut.st.violations = 0

\* the room-conflict reasons recorded for a (room, timeslot) pair
ConflictReasons(st, key) ==
    {j \in ReasonsOfKind(st, "room_conflict") :
        st.reasons[j].room = key[1] /\ st.reasons[j].timeslot = key[2]}

\* the room-conflict charges of a call: pair and amount
ConflictCharges(st) ==
    {<<st.reasons[j].room, st.reasons[j].timeslot, st.added[j]>> :
        j \in ReasonsOfKind(st, "room_conflict")}

\* the number of lessons a genome puts at a (room, timeslot) pair
LessonsAt(individual, key) ==
    Cardinality({i \in 1..Len(individual) : individual[i] = key})

\* C5: a known room given to k > 1 lessons at one timeslot is charged
\* 10 * (k - 1) with exactly one room-conflict reason, no other pair is
\* charged, and exchanging the positions of genes changes none of the charges
C5_RoomConflict ==
    Returned =>
        /\ \A key \in EvalRooms \X EvalTimeslots :
              IF key[1] \in DOMAIN eTab.rooms_capacity /\ LessonsAt(eInd, key) > 1
              THEN /\ Cardinality(ConflictReasons(eOut.st, key)) = 1
                   /\ \A j \in ConflictReasons(eOut.st, key) :
                         eOut.st.added[j] = 10 * (LessonsAt(eInd, key) - 1) * ScoreUnit
              ELSE ConflictReasons(eOut.st, key) = {}
        /\ (ePc = "SWAPPED" /\ ~ePrev.raised) =>
              /\ ConflictCharges(eOut.st) = ConflictCharges(ePrev.st)
              /\ Cardinality(ReasonsOfKind(eOut.st, "room_conflict"))
                     = Cardinality(ReasonsOfKind(ePrev.st, "room_conflict"))

\* C5 witness: two lessons share a known room and timeslot, and the second
\* call found them at other positions than the first
C5_Witness ==
    /\ Returned
    /\ ePc = "SWAPPED"
    /\ \E key \in EvalRooms \X EvalTimeslots :
          /\ key[1] \in DOMAIN eTab.rooms_capacity
          /\ LessonsAt(eInd, key) = 2
          /\ DictGet(eOut.st.assigned_room_timeslot, key, <<>>)
                 # DictGet(ePrev.st.assigned_room_timeslot, key, <<>>)
          /\ Cardinality(ConflictReasons(eOut.st, key)) = 1

\* the scenario of C6: three lessons of classes with 25, 10 and 25 students,
\* R1 with 30 and R2 with 20 seats, no teachers
Scenario6 ==
    /\ Len(eTab.lesson_instances) = 3
    /\ eTab.teacher_of_lesson = <<>>
    /\ \A i \in 1..3 :
          /\ Len(eTab.lesson_instances[i]) >= 2
          /\ eTab.lesson_instances[i][1] \in DOMAIN eTab.class_students
    /\ [i \in 1..3 |-> eTab.class_students[eTab.lesson_instances[i][1]]]
           = <<25, 10, 25>>
    /\ eTab.rooms_capacity = [R1 |-> 30, R2 |-> 20]
    /\ eInd = << <<"R1", "T1">>, <<"R1", "T1">>, <<"R2", "T2">> >>

\* C6: the scenario scores 20 with exactly two reasons, one room conflict and
\* one capacity reason
C6_Scenario ==
    (ePc = "EVALUATED" /\ Scenario6) =>
        /\ ~eOut.raised
        /\ eOut.st.violations = 20 * ScoreUnit
        /\ Len(eOut.st.reasons) = 2
        /\ Cardinality(ReasonsOfKind(eOut.st, "room_conflict")) = 1
        /\ Cardinality(ReasonsOfKind(eOut.st, "capacity")) = 1

\* C6 witness: the scenario was evaluated
C6_Witness ==
    /\ ePc = "EVALUATED"
    /\ Scenario6
    /\ eOut.st.violations = 20 * ScoreUnit

\* ------------------------------------------------------------------------
\* Properties of the variation operators
\* ------------------------------------------------------------------------

\* the genes of a genome
GenesOf(g) == {g[k] : k \in 1..Len(g)}

\* C7: crossover_individual returns two children as long as the parents, and
\* every gene of a child is a gene of one of the two parents
C7_CrossoverGenes ==
    oPc = "CROSSED" =>
        /\ Len(oRet) = 2
        /\ \A c \in 1..2 :
              /\ Len(oRet[c]) = Len(oIn[c])
              /\ GenesOf(oRet[c]) \subseteq GenesOf(oIn[1]) \cup GenesOf(oIn[2])

\* C7 witness: a crossover of parents of three genes exchanged a gene
C7_Witness ==
    /\ oPc = "CROSSED"
    /\ Len(oIn[1]) = 3
    /\ oRet[1] # oIn[1]
    /\ oRet[1][2] = oIn[2][2]
    /\ oRet[2][2] = oIn[1][2]

\* what the caller of evaluate_schedule gets from a call: the exception, or
\* the score and the reasons list
ResultOf(out) ==
    IF out.raised THEN <<"raised">> ELSE <<out.st.violations, out.st.reasons>>

Called == ePc \in {"EVALUATED", "SWAPPED", "REPEATED"}

\* C12: evaluate_schedule never raises on malformed per-lesson data (class
\* absent from class_students, id without "::", room absent from
\* rooms_capacity, teacher absent from teacher_info): every call returns a
\* score and reasons.
C12_NeverRaises ==
    Called => ~eOut.raised

\* the lessons in known rooms whose teacher has no entry in teacher_info
Unprofiled(T, individual) ==
    {i \in 1..Len(individual) :
        /\ individual[i][1] \in DOMAIN T.rooms_capacity
        /\ AssignedTeacher(T, i) # None
        /\ AssignedTeacher(T, i) \notin DOMAIN T.teacher_info}

\* C14: a lesson whose teacher id is absent from teacher_info is charged: the
\* call returns a score > 0 and a non-empty reasons list.
C14_UnknownTeacherCharged ==
    (Called /\ Unprofiled(eTab, eInd) # {}) =>
        /\ ~eOut.raised
        /\ eOut.st.violations > 0
        /\ eOut.st.reasons # <<>>

\* the lessons of a genome whose room is in rooms_capacity
KnownRoom(T, individual) ==
    {i \in 1..Len(individual) : individual[i][1] \in DOMAIN T.rooms_capacity}

\* the lessons in known rooms that a teacher holds
Taught(T, individual, tid) == LessonsOf(T, individual, tid) \cap KnownRoom(T, individual)

\* the lessons in known rooms whose teacher states preferred periods (or
\* favourite subjects) that the lesson misses
MissedPeriod(T, individual) ==
    {i \in KnownRoom(T, individual) :
        LET periods == PrefItems(T, AssignedTeacher(T, i), "teacher_preferred_periods")
        IN  AssignedTeacher(T, i) # None /\ periods # {}
                /\ individual[i][2] \notin periods}
MissedSubject(T, individual) ==
    {i \in KnownRoom(T, individual) :
        LET subjects == PrefItems(T, AssignedTeacher(T, i), "teacher_favorites_subject")
        IN  AssignedTeacher(T, i) # None /\ subjects # {}
                /\ T.lesson_instances[i][2] \notin subjects}

\* the lessons in known rooms with fewer seats than the class has students
Overfull(T, individual) ==
    {i \in KnownRoom(T, individual) :
        T.rooms_capacity[individual[i][1]]
            < T.class_students[T.lesson_instances[i][1]]}

\* the indexes (idx) entered in the occupancy map
Occupants(st) ==
    UNION {{st.assigned_room_timeslot[n].v[j][1] :
               j \in 1..Len(st.assigned_room_timeslot[n].v)} :
           n \in 1..Len(st.assigned_room_timeslot)}

\* C18: a gene with an unknown room adds exactly 10 and one reason, and
\* nothing else is done for it: it is not in the occupancy map, not in its
\* teacher's load or schedule, and the capacity and preference reasons are
\* those of the genes with known rooms alone (so are the conflict and
\* workload charges, which are computed from those maps).
C18_UnknownRoomSkipped ==
    (Called /\ ~eOut.raised) =>
        LET st == eOut.st
            missing == (1..Len(eInd)) \ KnownRoom(eTab, eInd)
        IN  /\ Cardinality(ReasonsOfKind(st, "room_missing")) = Cardinality(missing)
            /\ \A j \in ReasonsOfKind(st, "room_missing") :
                   /\ st.added[j] = 10 * ScoreUnit
                   /\ \E i \in missing : st.reasons[j].room = eInd[i][1]
            /\ Occupants(st) = {i - 1 : i \in KnownRoom(eTab, eInd)}
            /\ \A n \in 1..Len(st.assigned_room_timeslot) :
                   st.assigned_room_timeslot[n].k[1] \in DOMAIN eTab.rooms_capacity
            /\ \A tid \in {"P1", "P2", "P3"} :
                   /\ DictGet(st.teacher_load, tid, 0)
                          = Cardinality(Taught(eTab, eInd, tid))
                   /\ Len(DictGet(st.teacher_schedule, tid, <<>>))
                          = Cardinality(Taught(eTab, eInd, tid))
            /\ Cardinality(ReasonsOfKind(st, "capacity"))
                   = Cardinality(Overfull(eTab, eInd))
            /\ Cardinality(ReasonsOfKind(st, "soft_period"))
                   = Cardinality(MissedPeriod(eTab, eInd))
            /\ Cardinality(ReasonsOfKind(st, "soft_subject"))
                   = Cardinality(MissedSubject(eTab, eInd))
            /\ \A j \in ReasonsOfKind(st, "room_conflict") :
                   st.reasons[j].room \in DOMAIN eTab.rooms_capacity
            /\ missing = 1..Len(eInd) =>
                   /\ st.violations = 10 * Len(eInd) * ScoreUnit
                   /\ Len(st.reasons) = Len(eInd)

\* C18 witness: a lesson with a teacher who has preferences and a workload
\* limit sits in an unknown room next to a lesson in a known room, and the
\* call charged the unknown room
C18_Witness ==
    /\ Called /\ ~eOut.raised
    /\ \E i, k \in 1..Len(eInd) :
          /\ i \notin KnownRoom(eTab, eInd)
          /\ k \in KnownRoom(eTab, eInd)
          /\ AssignedTeacher(eTab, i) = "P1"
          /\ AssignedTeacher(eTab, k) = "P1"
          /\ eInd[i][2] = eInd[k][2]
          /\ PrefItems(eTab, "P1", "teacher_favorites_subject") # {}
          /\ eTab.lesson_instances[i][2] \notin PrefItems(eTab, "P1", "teacher_favorites_subject")
    /\ Cardinality(ReasonsOfKind(eOut.st, "room_missing")) = 1
    /\ eOut.st.violations >= 10 * ScoreUnit

\* the capacity reasons recorded for a room and a class
CapacityReasons(st, room, class) ==
    {j \in ReasonsOfKind(st, "capacity") :
        st.reasons[j].room = room /\ st.reasons[j].class = class}

\* C19: every gene whose room is known and has fewer seats than the class of
\* its lesson has students adds exactly 2 * (students - capacity) and one
\* capacity reason; a gene whose room has seats enough adds none.
C19_CapacityPenalty ==
    (Called /\ ~eOut.raised) =>
        \A room \in DOMAIN eTab.rooms_capacity, class \in DOMAIN eTab.class_students :
            LET genes == {i \in 1..Len(eInd) :
                             /\ eInd[i][1] = room
                             /\ eTab.lesson_instances[i][1] = class}
                cap == eTab.rooms_capacity[room]
                students == eTab.class_students[class]
            IN  IF cap < students
                THEN /\ Cardinality(CapacityReasons(eOut.st, room, class))
                            = Cardinality(genes)
                     /\ \A j \in CapacityReasons(eOut.st, room, class) :
                            /\ eOut.st.added[j] = 2 * (students - cap) * ScoreUnit
                            /\ eOut.st.reasons[j].capacity = cap
                            /\ eOut.st.reasons[j].students = students
                ELSE CapacityReasons(eOut.st, room, class) = {}

\* C19 witness: two genes put a class in a room too small for it, a third
\* gene has seats enough, and the call charged the two
C19_Witness ==
    /\ Called /\ ~eOut.raised
    /\ Cardinality(Overfull(eTab, eInd)) = 2
    /\ KnownRoom(eTab, eInd) \ Overfull(eTab, eInd) # {}
    /\ Cardinality(ReasonsOfKind(eOut.st, "capacity")) = 2
    /\ \A j \in ReasonsOfKind(eOut.st, "capacity") : eOut.st.added[j] = 10 * ScoreUnit

\* the teacher ids of the tables explored
TeacherIds == {"P1", "P2", "P3"}

\* the teacher-conflict reasons recorded for a teacher and a timeslot
TeacherConflictReasons(st, T, tid, timeslot) ==
    {j \in ReasonsOfKind(st, "teacher_conflict") :
        /\ st.reasons[j].teacher = TeacherName(T, tid)
        /\ st.reasons[j].timeslot = timeslot}

\* the schedule entries of a teacher at a timeslot
EntriesAt(T, individual, tid, timeslot) ==
    {i \in Taught(T, individual, tid) : individual[i][2] = timeslot}

\* C20: a teacher with k > 1 schedule entries at a timeslot adds exactly
\* 10 * (k - 1) and exactly one teacher-conflict reason for that timeslot;
\* a teacher with at most one entry at a timeslot adds none, and there is no
\* other teacher-conflict reason.
C20_TeacherConflict ==
    (Called /\ ~eOut.raised) =>
        /\ \A tid \in TeacherIds, timeslot \in EvalTimeslots :
               LET k == Cardinality(EntriesAt(eTab, eInd, tid, timeslot))
                   rs == TeacherConflictReasons(eOut.st, eTab, tid, timeslot)
               IN  IF k > 1
                   THEN /\ Cardinality(rs) = 1
                        /\ \A j \in rs :
                               /\ eOut.st.added[j] = 10 * (k - 1) * ScoreUnit
                               /\ Len(eOut.st.reasons[j].classes) = k
                   ELSE rs = {}
        /\ ReasonsOfKind(eOut.st, "teacher_conflict")
               = UNION {TeacherConflictReasons(eOut.st, eTab, tid, timeslot) :
                           tid \in TeacherIds, timeslot \in EvalTimeslots}

\* C20 witness: one teacher holds three lessons at one timeslot, or two at
\* one timeslot and one at another, and the call charged the conflict
C20_Witness ==
    /\ Called /\ ~eOut.raised
    /\ \E timeslot \in EvalTimeslots :
          /\ Cardinality(EntriesAt(eTab, eInd, "P1", timeslot)) = 2
          /\ Cardinality(Taught(eTab, eInd, "P1")) = 3
          /\ \E j \in TeacherConflictReasons(eOut.st, eTab, "P1", timeslot) :
                 eOut.st.added[j] = 10 * ScoreUnit
    /\ Cardinality(ReasonsOfKind(eOut.st, "teacher_conflict")) = 1

\* C17 as stated: after mutate_individual the genome that was passed in still
\* holds exactly the genes it held before the call.
C17_ArgumentUntouched ==
    oPc = "MUTATED" => oArg[1] = oIn[1]

\* gene `after` is gene `before` as mutate_individual may leave it: kept, or
\* with a timeslot of timeslots, or with a room of rooms, the other field kept
MutationOf(before, after) ==
    \/ after = before
    \/ after[1] = before[1] /\ \E j \in 1..Len(timeslots) : after[2] = timeslots[j]
    \/ after[2] = before[2] /\ \E j \in 1..Len(rooms) : after[1] = rooms[j]

\* C17 as amended: mutate_individual changes the genome it is given in place
\* and returns that same genome in a 1-tuple; the genome keeps its length,
\* every gene is kept or has one field redrawn from its domain list, and no
\* other genome is touched.
C17_MutatesInPlace ==
    oPc = "MUTATED" =>
        /\ oRet = <<oArg[1]>>
        /\ Len(oArg[1]) = Len(oIn[1])
        /\ \A k \in 1..Len(oIn[1]) : MutationOf(oIn[1][k], oArg[1][k])
        /\ oArg[2] = oIn[2]

\* C17 witness: a call redrew the timeslot of one gene and the room of
\* another, and the genome passed in holds the new genes
C17_Witness ==
    /\ oPc = "MUTATED"
    /\ oRet = <<oArg[1]>>
    /\ \E k, m \in 1..Len(oIn[1]) :
          /\ oArg[1][k][1] = oIn[1][k][1] /\ oArg[1][k][2] # oIn[1][k][2]
          /\ oArg[1][m][2] = oIn[1][m][2] /\ oArg[1][m][1] # oIn[1][m][1]

\* the reasons of a call that record a hard violation, and a soft one
HardReasons(st) ==
    {j \in 1..Len(st.reasons) :
        st.reasons[j].kind \in {"room_missing", "capacity", "room_conflict",
                                "teacher_conflict", "workload"}}
SoftReasons(st) ==
    {j \in 1..Len(st.reasons) : st.reasons[j].kind \in {"soft_period", "soft_subject"}}

\* the two calls of a comparison, in both orders
Compared ==
    IF ePc = "COMPARED" /\ ~ePrev.raised /\ ~eOut.raised
    THEN {<<ePrev.st, eOut.st>>, <<eOut.st, ePrev.st>>}
    ELSE {}

\* C16 as stated: of two genomes over the same lesson list, one with a hard
\* violation and one with soft violations only, the first has the strictly
\* higher score, however many soft violations the second has.
C16_HardDominates ==
    \A c \in Compared :
        (HardReasons(c[1]) # {} /\ HardReasons(c[2]) = {})
            => c[1].violations > c[2].violations

\* C16 as amended: a hard violation adds at least 2 and a soft one 0.5, so
\* the genome with a hard violation has a score of at least 2 and the
\* strictly higher score whenever the other genome has fewer than four soft
\* violations more than it.
C16_HardOutweighsThreeSoft ==
    \A c \in Compared :
        (HardReasons(c[1]) # {} /\ HardReasons(c[2]) = {})
            => /\ c[1].violations >= 2 * ScoreUnit
               /\ Cardinality(SoftReasons(c[2])) < Cardinality(SoftReasons(c[1])) + 4
                      => c[1].violations > c[2].violations

\* C16 witness: a genome whose only hard violation is one missing seat was
\* compared with a genome of three more soft violations and no hard one
C16_Witness ==
    \E c \in Compared :
        /\ Cardinality(HardReasons(c[1])) = 1
        /\ HardReasons(c[2]) = {}
        /\ Cardinality(SoftReasons(c[2])) = Cardinality(SoftReasons(c[1])) + 3
        /\ c[1].violations = c[2].violations + SoftPenalty

\* C13: called with a configuration error, execute_genAlgorithm fails before
\* any genome is created and before any generation runs: it never has a
\* population, an elite or a result.
C13_FailsFast ==
    ConfigError(cfg) =>
        /\ pop = <<>>
        /\ hof = <<>>
        /\ gen = 0
        /\ result.status = "none"
        /\ pc \in {"START", "INITIALIZED", "RAISED"}

\* C15: the caller of the search comes to an end (where it reports the
\* schedule it has), also when no attempt reaches a zero-violation schedule:
\* it does not start attempts forever.
C15_RetryTerminates ==
    <>(rPc = "DONE")

\* the workload reasons recorded for a teacher
WorkloadReasons(st, T, tid) ==
    {j \in ReasonsOfKind(st, "workload") : st.reasons[j].teacher = TeacherName(T, tid)}

\* the teacher has a max workload defined in teacher_info
HasMaxWorkload(T, tid) ==
    tid \in DOMAIN T.teacher_info
        /\ "teacher_max_workload" \in DOMAIN T.teacher_info[tid]

\* C21: a teacher with a max workload defined whose load (the lessons the
\* evaluator counted for the teacher) exceeds it adds exactly
\* 2 * (load - max_workload) and one workload reason; a teacher within the
\* limit or without a limit adds none, and there is no other workload reason.
C21_WorkloadPenalty ==
    (Called /\ ~eOut.raised) =>
        /\ \A tid \in TeacherIds :
               LET load == Cardinality(Taught(eTab, eInd, tid))
                   rs == WorkloadReasons(eOut.st, eTab, tid)
               IN  IF HasMaxWorkload(eTab, tid)
                      /\ load > eTab.teacher_info[tid].teacher_max_workload
                   THEN /\ Cardinality(rs) = 1
                        /\ \A j \in rs :
                               /\ eOut.st.added[j]
                                      = 2 * (load - eTab.teacher_info[tid].teacher_max_workload)
                                          * ScoreUnit
                               /\ eOut.st.reasons[j].load = load
                               /\ eOut.st.reasons[j].maxw
                                      = eTab.teacher_info[tid].teacher_max_workload
                   ELSE rs = {}
        /\ ReasonsOfKind(eOut.st, "workload")
               = UNION {WorkloadReasons(eOut.st, eTab, tid) : tid \in TeacherIds}

\* C21 witness: one teacher is two lessons over a limit of 1, another teacher
\* is within a limit or has none, and the call charged the first 4
C21_Witness ==
    /\ Called /\ ~eOut.raised
    /\ \E tid \in TeacherIds :
          /\ HasMaxWorkload(eTab, tid)
          /\ eTab.teacher_info[tid].teacher_max_workload = 1
          /\ Cardinality(Taught(eTab, eInd, tid)) = 3
          /\ \E j \in WorkloadReasons(eOut.st, eTab, tid) :
                 eOut.st.added[j] = 4 * ScoreUnit
    /\ Cardinality(ReasonsOfKind(eOut.st, "workload")) = 1

\* C22: in a run started by main, a teacher holding more lessons (in known
\* rooms) than the max_workload loaded for them from the teachers data is
\* charged 2 * (load - max_workload) points with one workload reason
C22_MainWorkloadVisible ==
    (Called /\ ~eOut.raised) =>
        \A tid \in DOMAIN eTab.teacher_info :
            LET load == Cardinality(Taught(eTab, eInd, tid))
                maxw == eTab.teacher_info[tid].max_workload
            IN  load > maxw =>
                    \E j \in ReasonsOfKind(eOut.st, "workload") :
                        /\ eOut.st.reasons[j].load = load
                        /\ eOut.st.reasons[j].maxw = maxw
                        /\ eOut.st.added[j] = 2 * (load - maxw) * ScoreUnit

\* the soft reasons of a kind that name a teacher and a value (the timeslot
\* or the subject missed)
SoftReasonsFor(st, kind, field, name, value) ==
    {j \in ReasonsOfKind(st, kind) :
        st.reasons[j].teacher = name /\ st.reasons[j][field] = value}

\* the subjects of the lessons explored
Subjects == {"Math", "Art"}

\* C23: every gene with a known room and an assigned teacher adds half a
\* point and one reason when the teacher's non-empty preferred periods lack
\* the gene's timeslot, and, apart from that, half a point and one reason
\* when the teacher's non-empty favourite subjects lack the lesson's subject;
\* an empty or absent preference adds nothing
C23_SoftPreferences ==
    (Called /\ ~eOut.raised) =>
        LET st == eOut.st
        IN  /\ \A j \in SoftReasons(st) : 2 * st.added[j] = ScoreUnit
            /\ Cardinality(ReasonsOfKind(st, "soft_period"))
                   = Cardinality(MissedPeriod(eTab, eInd))
            /\ Cardinality(ReasonsOfKind(st, "soft_subject"))
                   = Cardinality(MissedSubject(eTab, eInd))
            /\ \A tid \in TeacherIds :
                   /\ \A ts \in EvalTimeslots :
                          Cardinality(SoftReasonsFor(st, "soft_period", "timeslot",
                                                     TeacherName(eTab, tid), ts))
                            = Cardinality({i \in MissedPeriod(eTab, eInd) :
                                              /\ AssignedTeacher(eTab, i) = tid
                                              /\ eInd[i][2] = ts})
                   /\ \A sb \in Subjects :
                          Cardinality(SoftReasonsFor(st, "soft_subject", "subject",
                                                     TeacherName(eTab, tid), sb))
                            = Cardinality({i \in MissedSubject(eTab, eInd) :
                                              /\ AssignedTeacher(eTab, i) = tid
                                              /\ eTab.lesson_instances[i][2] = sb})

\* a genome with a lesson that misses both preferences of its teacher (two
\* reasons of half a point), a lesson of the same teacher in an unknown room
\* and nothing else charged
C23_Witness ==
    /\ ePc = "EVALUATED"
    /\ ~eOut.raised
    /\ eTab.teacher_info = StrictInfo
    /\ Len(eInd) = 3
    /\ MissedPeriod(eTab, eInd) \cap MissedSubject(eTab, eInd) # {}
    /\ KnownRoom(eTab, eInd) # 1..Len(eInd)
    /\ Cardinality(SoftReasons(eOut.st)) = 2
    /\ eOut.st.violations = HardPenalty * ScoreUnit + ScoreUnit

\* C24: the population created holds npop individuals, and so do the
\* selection, the offspring after variation and the population that every
\* generation leaves
C24_FixedPopulation ==
    /\ pc \in {"INITIALIZED", "EVALUATED", "SELECTED", "VARIED", "TERMINATED"}
           => Len(pop) = cfg.npop
    /\ pc \in {"SELECTED", "VARIED"} => Len(sel) = cfg.npop
    /\ pc = "VARIED" => Len(offspring) = cfg.npop

\* the second generation's offspring, a pair of them mated, and the
\* population of the first generation still in place
C24_Witness ==
    /\ pc = "VARIED"
    /\ gen = 1
    /\ cfg.npop >= 2
    /\ Len(pop) = cfg.npop
    /\ Len(offspring) = cfg.npop
    /\ offspring[1].fitness = <<>>
    /\ offspring[2].fitness = <<>>

\* C25: the run returns only after generation ngen; while generations are
\* left the one step open is the next selection, whatever the elite's score,
\* the generation counter moves by one at the evaluation that ends a
\* generation, and after generation ngen the one step open is the return
C25_NoEarlyStop ==
    /\ [](pc = "TERMINATED" => (gen = ngen /\ result.status = "returned"))
    /\ [][(pc = "EVALUATED" /\ gen < ngen) => (pc' = "SELECTED" /\ gen' = gen)]_vars
    /\ [][gen' # gen => (/\ pc = "VARIED"
                         /\ pc' = "EVALUATED"
                         /\ gen' = gen + 1
                         /\ gen' <= ngen)]_vars
    /\ []((pc = "EVALUATED" /\ gen = ngen) => ENABLED Terminate)
    /\ [][(pc = "EVALUATED" /\ gen = ngen) => pc' = "TERMINATED"]_vars

\* the elite scores 0 after the first generation and the second generation
\* is under way
C25_Witness ==
    /\ pc = "VARIED"
    /\ gen = 1
    /\ ngen = 2
    /\ hof[1].fitness[1] = 0

\* the weekday index of the seven-day order Monday = 0, ..., Sunday = 6 (the
\* Portuguese names counted with the English ones); any other string is 7
SevenDayIndex(w) ==
    CASE w \in {"Monday", "Segunda"} -> 0
      [] w \in {"Tuesday", "Terça"} -> 1
      [] w \in {"Wednesday", "Quarta"} -> 2
      [] w \in {"Thursday", "Quinta"} -> 3
      [] w \in {"Friday", "Sexta"} -> 4
      [] w \in {"Saturday", "Sábado"} -> 5
      [] w \in {"Sunday", "Domingo"} -> 6
      [] OTHER -> 7

\* the weekday index of the five-day order Monday = 0, ..., Friday = 4 in
\* English or Portuguese; any other string is 5
FiveDayIndex(w) ==
    CASE w \in {"Monday", "Segunda"} -> 0
      [] w \in {"Tuesday", "Terça"} -> 1
      [] w \in {"Wednesday", "Quarta"} -> 2
      [] w \in {"Thursday", "Quinta"} -> 3
      [] w \in {"Friday", "Sexta"} -> 4
      [] OTHER -> 5

\* a block lists its slots by rising (index, label)
InOrder(block, Index(_)) ==
    \A i, j \in 1..Len(block) :
        i < j =>
            /\ Index(block[i].weekday) <= Index(block[j].weekday)
            /\ Index(block[i].weekday) = Index(block[j].weekday)
                   => ~TextLess(block[j].label, block[i].label)

\* the lessons of a class in the report's input that are mapped to a timeslot
InputAt(class, timeslot) ==
    {i \in 1..Len(oIn.lesson_instances) :
        oIn.lesson_instances[i][1] = class /\ oIn.mapping[i][2] = timeslot}

\* every class of the input has one block, and a block holds the slots of the
\* lessons of its class
Blocks ==
    /\ \A i \in 1..Len(oIn.lesson_instances) :
           \E b \in 1..Len(oRet) : oRet[b].k = oIn.lesson_instances[i][1]
    /\ \A b, c \in 1..Len(oRet) : oRet[b].k = oRet[c].k => b = c
    /\ \A b \in 1..Len(oRet) :
           \A ts \in DOMAIN ScheduleMeta \cup {"S0"} :
               Cardinality({j \in 1..Len(oRet[b].v) : oRet[b].v[j].timeslot = ts})
                   = Cardinality(InputAt(oRet[b].k, ts))

\* C26: the report lists each class's lessons by (weekday index, label) with
\* the indexes Monday = 0, ..., Saturday = 5, Sunday = 6 and every
\* unrecognized weekday behind all seven
C26_SevenDayOrder ==
    oPc = "REPORTED" =>
        /\ Blocks
        /\ \A b \in 1..Len(oRet) : InOrder(oRet[b].v, SevenDayIndex)

\* C26 as amended: the indexes are Monday = 0, ..., Friday = 4, and every
\* other weekday, Saturday and Sunday among them, shares one index behind
\* the five
C26_FiveDayOrder ==
    oPc = "REPORTED" =>
        /\ Blocks
        /\ \A b \in 1..Len(oRet) : InOrder(oRet[b].v, FiveDayIndex)

\* a class whose first lesson is on Saturday (label M2) and whose block lists
\* Friday, then Sunday (label M1), then Saturday
C26_Witness ==
    /\ oPc = "REPORTED"
    /\ \E b \in 1..Len(oRet) :
           /\ Len(oRet[b].v) = 3
           /\ oRet[b].v[1].weekday = "Friday"
           /\ oRet[b].v[2].weekday = "Sunday"
           /\ oRet[b].v[3].weekday = "Saturday"
           /\ oIn.mapping[1][2] = "S3"

\* C27: a crossover of parents with fewer than 2 genes returns the two
\* parents, every gene as it was
C27_ShortParentsKept ==
    (oPc = "CROSSED" /\ Len(oIn[1]) < 2) =>
        /\ oRet = oIn
        /\ oArg = oIn

\* a crossover of two different parents of one gene has returned them
C27_Witness ==
    /\ oPc = "CROSSED"
    /\ Len(oIn[1]) = 1
    /\ oIn[1] # oIn[2]
    /\ oRet[1] = oIn[1]
    /\ oRet[2] = oIn[2]

\* C30: crossover_individual exchanges genes position by position and never
\* at the ends: at every position the children hold the parents' genes of
\* that position, kept or swapped, the first and the last position are kept,
\* and children of parents of length 2 equal the parents
C30_PositionWise ==
    oPc = "CROSSED" =>
        LET len == Len(oIn[1])
        IN  /\ Len(oRet[1]) = len /\ Len(oRet[2]) = len
            /\ \A i \in 1..len :
                   \/ oRet[1][i] = oIn[1][i] /\ oRet[2][i] = oIn[2][i]
                   \/ oRet[1][i] = oIn[2][i] /\ oRet[2][i] = oIn[1][i]
            /\ \A i \in {1, len} \cap (1..len) :
                   oRet[1][i] = oIn[1][i] /\ oRet[2][i] = oIn[2][i]
            /\ len = 2 => oRet = oIn

\* parents of three genes that differ at every position: the middle genes
\* changed sides and the genes at both ends stayed
C30_Witness ==
    /\ oPc = "CROSSED"
    /\ Len(oIn[1]) = 3
    /\ \A i \in 1..3 : oIn[1][i] # oIn[2][i]
    /\ oRet[1] = <<oIn[1][1], oIn[2][2], oIn[1][3]>>
    /\ oRet[2] = <<oIn[2][1], oIn[1][2], oIn[2][3]>>

\* the sum of a sequence of numbers
RECURSIVE SumOf(_)
SumOf(seq) == IF seq = <<>> THEN 0 ELSE Head(seq) + SumOf(Tail(seq))

\* C29: on return the score is 0 exactly when the reasons list is empty:
\* every reason stands next to one increment, every increment is above 0,
\* and the score is the sum of the increments
C29_ZeroIffNoReasons ==
    (Called /\ ~eOut.raised) =>
        LET st == eOut.st
        IN  /\ (st.violations = 0) <=> (st.reasons = <<>>)
            /\ Len(st.added) = Len(st.reasons)
            /\ \A j \in 1..Len(st.added) : st.added[j] > 0
            /\ st.violations = SumOf(st.added)

\* a call returned with a room conflict of two lessons, a soft reason and
\* nothing else, 10.5 points in all
C29_Witness ==
    /\ ePc = "EVALUATED"
    /\ ~eOut.raised
    /\ Len(eOut.st.reasons) = 2
    /\ Cardinality(ReasonsOfKind(eOut.st, "room_conflict")) = 1
    /\ Cardinality(SoftReasons(eOut.st)) = 1
    /\ eOut.st.violations = HardPenalty * ScoreUnit + SoftPenalty

\* C28: no step on one individual reaches another: varAnd leaves the
\* population and the elite as they were and leaves every offspring it did
\* not mate or mutate equal to its parent, also when another position holds a
\* copy of the same parent that it did change; an evaluation keeps every
\* genome, keeps the score and the reasons of the offspring whose score was
\* valid, and changes the elite only into a copy of a member of the new
\* population; selection and the return change neither
C28_NoAliasing ==
    [][/\ pc = "SELECTED" =>
              /\ pop' = pop
              /\ hof' = hof
              /\ \A i \in 1..Len(offspring') :
                     i \notin touched' => offspring'[i] = pop[sel[i]]
       /\ (pc = "VARIED" /\ pc' = "EVALUATED") =>
              /\ \A i \in 1..Len(offspring) :
                     /\ pop'[i].genes = offspring[i].genes
                     /\ offspring[i].fitness # <<>> => pop'[i] = offspring[i]
              /\ hof' = hof \/ \E i \in 1..Len(pop') : hof'[1] = pop'[i]
       /\ (pc = "INITIALIZED" /\ pc' = "EVALUATED") =>
              \A i \in 1..Len(pop) : pop'[i].genes = pop[i].genes
       /\ pc = "EVALUATED" => (pop' = pop /\ hof' = hof)]_vars

\* both positions of the selection hold the same parent; varAnd mutated the
\* first copy, and the second copy, the parent and the elite are as before
C28_Witness ==
    /\ pc = "VARIED"
    /\ sel[1] = sel[2]
    /\ touched = {1}
    /\ offspring[1].genes # pop[sel[1]].genes
    /\ offspring[2] = pop[sel[2]]
    /\ hof[1].genes = pop[sel[1]].genes

====
